---- MODULE Spec2Model ----
(***************************************************************************)
(* Plugin runtime of shell-formatter: the dependency-injection container   *)
(* (src/di/container.ts), the message bus (utils/plugin/MessageBus.ts) and  *)
(* the plugin manager (utils/plugin/PluginManager.ts).                      *)
(*                                                                         *)
(* Each component has its own specification (SpecDI, SpecBus, SpecPM); the *)
(* variables of the other components stay at their initial values.         *)
(***************************************************************************)
EXTENDS Integers, Sequences, FiniteSets, TLC

(***************************************************************************)
(* Bounds of the model.                                                    *)
(***************************************************************************)
\* number of container calls (register*, resolve, reset, clear) in a run
MaxDiOps == 4
\* number of subscribe / once calls in a run (the ids sub_0 .. sub_(MaxSubs-1))
MaxSubs == 2
\* number of publish / publishMessage calls in a run
MaxPublishes == 1
\* number of activate / deactivate / unregister calls in a run
MaxCalls == 3
\* number of deactivateAll calls in a run
MaxDeactivateAlls == 1
\* number of timers DebounceManager.debounce creates in a run
MaxTimers == 3

(***************************************************************************)
(* State.                                                                  *)
(***************************************************************************)
\* DI container
VARIABLES
    services,       \* Map<string, ServiceMetadata>: name -> metadata or NoService
    creatingStack,  \* Set<string> in insertion order: names under construction
    nextObj,        \* identity of the next object a factory creates
    lifetime,       \* name -> the register method used ("singleton"/"transient"/"none")
    made,           \* name -> factory invocations that returned, since the
                    \*   registration / reset / clear that opened the period
    got,            \* name -> values resolve(name) returned in that period, in order
    stale,          \* name -> instance the last reset() dropped from the cache
    diLast,         \* the last container call and what it returned or threw
    diOps,          \* container calls made so far
    cleaning        \* the cleanup() call: its position, the hooks it met and
                    \*   invoked, and the promises those hooks returned


\* message bus
VARIABLES
    subscriptions,          \* Map<MessageType, MessageSubscription[]>; a type
                            \*   without key is the empty list
    subscriptionIdCounter,  \* the counter behind the ids sub_<n>
    handlerTimeout,         \* config.handlerTimeout (0: no timeout)
    maxSubscriptions,       \* config.maxSubscriptions (0: no limit)
    pub,                    \* the publishMessage calls: slot -> call record
    published               \* publishMessage calls started so far

\* a plugin derived from BasePlugin, on this bus
VARIABLES
    basePlugin              \* subscriptionIds: the private Set<string> of ids to
                            \*   cancel; issued: the ids subscribeMessage has
                            \*   returned; cancelled: those of them returned
                            \*   before the last onDeactivate

\* debounce manager
VARIABLES
    debouncer               \* timers: Map<string, Timeout> (key -> timer, NoTimer:
                            \*   no entry); pending: the timeouts the runtime
                            \*   will still fire; nextTimer: the next timer made;
                            \*   ran: the timers whose callback was run;
                            \*   stopped: the timers that were pending when
                            \*   debounce(key), cancel(key) or clearAll()
                            \*   covered their key


\* plugin manager
VARIABLES
    plugins,                    \* Map<string, TPlugin>: name -> instance (NoPlugin: none)
    activePlugins,              \* Set<string>, in insertion order
    throwOnActivationError,     \* config.throwOnActivationError
    throwOnDeactivationError,   \* config.throwOnDeactivationError
    calls,                      \* the async calls in flight: slot -> call record
    availOk,                    \* instances whose isAvailable() returned true in an activate call
    started,                    \* async calls started so far
    multi,                      \* the activateMultiple call in flight
    all                         \* the deactivateAll call in flight

diVars ==
    <<services, creatingStack, nextObj, lifetime, made, got, stale, diLast, diOps,
      cleaning>>
busVars == <<subscriptions, subscriptionIdCounter, handlerTimeout, maxSubscriptions,
            pub, published>>
pmVars == <<plugins, activePlugins, throwOnActivationError, throwOnDeactivationError,
            calls, availOk, started, multi, all>>
vars == <<diVars, busVars, pmVars, basePlugin, debouncer>>

(***************************************************************************)
(* Small helpers.                                                          *)
(***************************************************************************)
InSeq(x, s) == \E i \in 1..Len(s) : s[i] = x

\* s without its elements equal to x (Set.delete on an insertion-ordered set)
RECURSIVE SeqDelete(_, _)
SeqDelete(s, x) ==
    IF s = <<>> THEN <<>>
    ELSE IF Head(s) = x THEN SeqDelete(Tail(s), x)
    ELSE <<Head(s)>> \o SeqDelete(Tail(s), x)

NoDuplicates(s) == \A i, j \in 1..Len(s) : i # j => s[i] # s[j]

(***************************************************************************)
(* DI container: src/di/container.ts                                        *)
(***************************************************************************)

SvcNames == {"A", "B", "C"}

\* services.get(name) of a name that is not registered
NoService == [registered |-> FALSE]
\* the value undefined; the objects factories create are 1, 2, ...
Undefined == 0
NoDep == "NoDep"
NoError == [kind |-> "none", names |-> <<>>]

\* What a registered factory does when the container invokes it: it first
\* resolves `uses` from the container (when it has one), then returns a new
\* object ("obj"), returns undefined ("undef") or throws ("throw").
FactoryKinds == {"obj", "undef", "throw"}
Factories ==
    [kind : FactoryKinds, uses : {NoDep}] \cup [kind : {"obj"}, uses : SvcNames]

\* ServiceMetadata as registerSingleton / registerTransient create it
NewMetadata(factory) ==
    [factory |-> factory,
     instantiated |-> FALSE,
     instance |-> Undefined,
     dependencies |-> IF factory.uses = NoDep THEN <<>> ELSE <<factory.uses>>]

has(name) == services[name] # NoService

\* The container state a resolve call works on, with what the call returns
\* (value) or throws (error).
DiState ==
    [services |-> services, creatingStack |-> creatingStack, nextObj |-> nextObj,
     made |-> made, got |-> got, value |-> Undefined, error |-> NoError]

\* a cycle message that leaves out the repeated name
CircularErrorWithoutRepeat(stack, name) ==
    [kind |-> "CircularDependency", names |-> stack]

\* Error("Circular dependency detected: " + [...creatingStack, name].join(" -> "))
CircularError(stack, name) ==
    [kind |-> "CircularDependency", names |-> Append(stack, name)]

NotRegisteredError(name) == [kind |-> "ServiceNotRegistered", names |-> <<name>>]

\* the error a throwing factory throws
FactoryError(name) == [kind |-> "FactoryError", names |-> <<name>>]

\* the cache test of resolve: instantiated and instance !== undefined
IsCached(service) == service.instantiated /\ service.instance # Undefined

\* after the factory returned: cache the instance when instantiated === false
CacheInstance(service, instance) ==
    IF service.instantiated = FALSE
    THEN [service EXCEPT !.instantiated = TRUE, !.instance = instance]
    ELSE service

\* a release that is skipped when the factory failed
ReleaseOnSuccessOnly(st, name) ==
    IF st.error # NoError THEN st
    ELSE [st EXCEPT !.creatingStack = SeqDelete(@, name)]

\* finally { creatingStack.delete(name) }
Release(st, name) == [st EXCEPT !.creatingStack = SeqDelete(@, name)]

RECURSIVE resolve(_, _)
resolve(st, name) ==
    LET service == st.services[name] IN
    IF service = NoService
    THEN [st EXCEPT !.value = Undefined, !.error = NotRegisteredError(name)]
    ELSE IF InSeq(name, st.creatingStack)
    THEN [st EXCEPT !.value = Undefined,
                    !.error = CircularError(st.creatingStack, name)]
    ELSE IF IsCached(service)
    THEN [st EXCEPT !.value = service.instance, !.error = NoError,
                    !.got[name] = Append(@, service.instance)]
    ELSE
        LET pushed == [st EXCEPT !.creatingStack = Append(@, name)]
            \* the factory body: resolve what it uses, then produce its value
            inner == IF service.factory.uses = NoDep
                     THEN [pushed EXCEPT !.error = NoError]
                     ELSE resolve(pushed, service.factory.uses)
            popped == Release(inner, name)
        IN  IF inner.error # NoError
            THEN [popped EXCEPT !.value = Undefined]
            ELSE IF service.factory.kind = "throw"
            THEN [popped EXCEPT !.value = Undefined, !.error = FactoryError(name)]
            ELSE
                LET instance == IF service.factory.kind = "obj"
                                THEN inner.nextObj ELSE Undefined
                IN  [popped EXCEPT
                        !.nextObj = IF service.factory.kind = "obj" THEN @ + 1 ELSE @,
                        !.made[name] = @ + 1,
                        !.services[name] = CacheInstance(inner.services[name], instance),
                        !.got[name] = Append(@, instance),
                        !.value = instance,
                        !.error = NoError]

\* a registration that replaces the factory and keeps what was cached
registerSingletonKeepsInstance(name, factory) ==
    /\ diOps < MaxDiOps
    /\ services' = [services EXCEPT
                       ![name] = IF has(name)
                                 THEN [services[name] EXCEPT !.factory = factory]
                                 ELSE NewMetadata(factory)]
    /\ lifetime' = [lifetime EXCEPT ![name] = "singleton"]
    /\ made' = [made EXCEPT ![name] = 0]
    /\ got' = [got EXCEPT ![name] = <<>>]
    /\ stale' = [stale EXCEPT ![name] = Undefined]
    /\ diLast' = [op |-> "registerSingleton", name |-> name,
                  value |-> Undefined, error |-> NoError]
    /\ diOps' = diOps + 1
    /\ UNCHANGED <<creatingStack, nextObj>>
    /\ UNCHANGED <<cleaning, busVars, pmVars, basePlugin, debouncer>>

registerSingleton(name, factory) ==
    /\ diOps < MaxDiOps
    /\ services' = [services EXCEPT ![name] = NewMetadata(factory)]
    /\ lifetime' = [lifetime EXCEPT ![name] = "singleton"]
    /\ made' = [made EXCEPT ![name] = 0]
    /\ got' = [got EXCEPT ![name] = <<>>]
    /\ stale' = [stale EXCEPT ![name] = Undefined]
    /\ diLast' = [op |-> "registerSingleton", name |-> name,
                  value |-> Undefined, error |-> NoError]
    /\ diOps' = diOps + 1
    /\ UNCHANGED <<creatingStack, nextObj>>
    /\ UNCHANGED <<cleaning, busVars, pmVars, basePlugin, debouncer>>

registerTransient(name, factory) ==
    /\ diOps < MaxDiOps
    /\ services' = [services EXCEPT ![name] = NewMetadata(factory)]
    /\ lifetime' = [lifetime EXCEPT ![name] = "transient"]
    /\ made' = [made EXCEPT ![name] = 0]
    /\ got' = [got EXCEPT ![name] = <<>>]
    /\ stale' = [stale EXCEPT ![name] = Undefined]
    /\ diLast' = [op |-> "registerTransient", name |-> name,
                  value |-> Undefined, error |-> NoError]
    /\ diOps' = diOps + 1
    /\ UNCHANGED <<creatingStack, nextObj>>
    /\ UNCHANGED <<cleaning, busVars, pmVars, basePlugin, debouncer>>

\* a resolve call made by the host (creatingStack is empty between calls)
resolveCall(name) ==
    /\ diOps < MaxDiOps
    /\ LET r == resolve(DiState, name) IN
        /\ services' = r.services
        /\ creatingStack' = r.creatingStack
        /\ nextObj' = r.nextObj
        /\ made' = r.made
        /\ got' = r.got
        /\ diLast' = [op |-> "resolve", name |-> name,
                      value |-> r.value, error |-> r.error]
    /\ diOps' = diOps + 1
    /\ UNCHANGED <<lifetime, stale>>
    /\ UNCHANGED <<cleaning, busVars, pmVars, basePlugin, debouncer>>

\* a reset that keeps the cached instances
ResetMetadataKeepsInstance(service) == service

ResetMetadata(service) ==
    IF service = NoService THEN NoService
    ELSE [service EXCEPT !.instantiated = FALSE, !.instance = Undefined]

reset ==
    /\ diOps < MaxDiOps
    /\ services' = [n \in SvcNames |-> ResetMetadata(services[n])]
    /\ creatingStack' = <<>>
    /\ made' = [n \in SvcNames |-> 0]
    /\ got' = [n \in SvcNames |-> <<>>]
    /\ stale' = [n \in SvcNames |->
                    IF has(n) /\ IsCached(services[n])
                    THEN services[n].instance ELSE stale[n]]
    /\ diLast' = [op |-> "reset", name |-> NoDep, value |-> Undefined, error |-> NoError]
    /\ diOps' = diOps + 1
    /\ UNCHANGED <<nextObj, lifetime>>
    /\ UNCHANGED <<cleaning, busVars, pmVars, basePlugin, debouncer>>

clear ==
    /\ diOps < MaxDiOps
    /\ services' = [n \in SvcNames |-> NoService]
    /\ creatingStack' = <<>>
    /\ lifetime' = [n \in SvcNames |-> "none"]
    /\ made' = [n \in SvcNames |-> 0]
    /\ got' = [n \in SvcNames |-> <<>>]
    /\ stale' = [n \in SvcNames |-> Undefined]
    /\ diLast' = [op |-> "clear", name |-> NoDep, value |-> Undefined, error |-> NoError]
    /\ diOps' = diOps + 1
    /\ UNCHANGED nextObj
    /\ UNCHANGED <<cleaning, busVars, pmVars, basePlugin, debouncer>>

\* cleanup() call record: pc is its position, hooks what it found on each
\* service, invoked how often it called each hook, pending the promises the
\* hooks returned that have not settled, rejections those that rejected.
\* What cleanup() finds on a cached instance: no cleanup function ("absent"),
\* or a cleanup function that returns a plain value ("returns"), throws
\* ("throws"), or returns a promise ("async"); "none" is a service the loop
\* skips (not registered, not instantiated, or a falsy instance).
CleanupKinds == {"absent", "returns", "throws", "async"}
NoCleanup == "none"

\* hasCleanup(obj): obj && typeof obj.cleanup === "function"
hasCleanup(kind) == kind \in {"returns", "throws", "async"}

\* the orders in which services.entries() can enumerate the names
EntryOrders ==
    {order \in [1..Cardinality(SvcNames) -> SvcNames] :
        \A i, j \in DOMAIN order : i # j => order[i] # order[j]}

IdleCleanup ==
    [pc |-> "idle",
     hooks |-> [n \in SvcNames |-> NoCleanup],
     invoked |-> [n \in SvcNames |-> 0],
     pending |-> {},
     rejections |-> {}]

\* a throwing hook that ends the loop and rejects cleanup()
HookThrewEscapes(call) == [call EXCEPT !.pc = "rejected"]

\* catch (error) { logger.error(...) }: the loop goes on
HookThrew(call) == call

\* for (const [name, metadata] of this.services.entries()) { ... }
RECURSIVE CleanupLoop(_, _)
CleanupLoop(call, names) ==
    IF names = <<>> \/ call.pc = "rejected" THEN call
    ELSE LET name == Head(names)
             kind == call.hooks[name]
             called == [call EXCEPT !.invoked[name] = @ + 1]
         IN  IF ~hasCleanup(kind) THEN CleanupLoop(call, Tail(names))
             ELSE IF kind = "throws"
                  THEN CleanupLoop(HookThrew(called), Tail(names))
             ELSE IF kind = "async"
                  THEN CleanupLoop([called EXCEPT !.pending = @ \cup {name}],
                                   Tail(names))
             ELSE CleanupLoop(called, Tail(names))

\* the services whose instance the loop looks at:
\* metadata.instantiated && metadata.instance
Cleanable(name) ==
    /\ has(name)
    /\ services[name].instantiated
    /\ services[name].instance # Undefined

\* cleanup(): runs the loop, then awaits Promise.all of the promises collected
\* (when there is any)
cleanup ==
    /\ cleaning.pc # "awaiting"
    /\ diOps < MaxDiOps
    /\ \E kinds \in [{n \in SvcNames : Cleanable(n)} -> CleanupKinds],
          order \in EntryOrders :
           LET hooks == [n \in SvcNames |->
                            IF Cleanable(n) THEN kinds[n] ELSE NoCleanup]
               call == CleanupLoop([IdleCleanup EXCEPT !.pc = "running",
                                                        !.hooks = hooks],
                                   order)
           IN  cleaning' =
                   IF call.pc = "rejected" THEN call
                   ELSE IF call.pending = {} THEN [call EXCEPT !.pc = "resolved"]
                   ELSE [call EXCEPT !.pc = "awaiting"]
    /\ diOps' = diOps + 1
    /\ UNCHANGED <<services, creatingStack, nextObj, lifetime, made, got, stale,
                   diLast>>
    /\ UNCHANGED <<busVars, pmVars, basePlugin, debouncer>>

\* Promise.all(cleanupPromises): fulfilled when the last promise fulfils,
\* rejected as soon as one promise rejects
PromiseAllSettles(pending, name, settlement) ==
    settlement = "reject" \/ pending = {name}

\* A promise returned by a cleanup hook settles.  When that settles the
\* Promise.all cleanup() awaits, cleanup() goes on: try { await ... } catch
\* logs the rejection, and the call resolves.
cleanupPromiseSettles(name, settlement) ==
    /\ name \in cleaning.pending
    /\ cleaning' =
        [cleaning EXCEPT
            !.pending = @ \ {name},
            !.rejections = IF settlement = "reject" THEN @ \cup {name} ELSE @,
            !.pc = IF @ = "awaiting"
                      /\ PromiseAllSettles(cleaning.pending, name, settlement)
                   THEN "resolved" ELSE @]
    /\ UNCHANGED <<services, creatingStack, nextObj, lifetime, made, got, stale,
                   diLast, diOps>>
    /\ UNCHANGED <<busVars, pmVars, basePlugin, debouncer>>

InitDI ==
    /\ services = [n \in SvcNames |-> NoService]
    /\ creatingStack = <<>>
    /\ nextObj = 1
    /\ lifetime = [n \in SvcNames |-> "none"]
    /\ made = [n \in SvcNames |-> 0]
    /\ got = [n \in SvcNames |-> <<>>]
    /\ stale = [n \in SvcNames |-> Undefined]
    /\ diLast = [op |-> "none", name |-> NoDep, value |-> Undefined, error |-> NoError]
    /\ diOps = 0
    /\ cleaning = IdleCleanup

NextDI ==
    \/ \E name \in SvcNames, factory \in Factories : registerSingleton(name, factory)
    \/ \E name \in SvcNames, factory \in Factories : registerTransient(name, factory)
    \/ \E name \in SvcNames : resolveCall(name)
    \/ reset
    \/ clear

\* the container with cleanup(): services are registered and resolved, then
\* cleaned up
NextDICleanup ==
    \/ \E name \in SvcNames, factory \in Factories : registerSingleton(name, factory)
    \/ \E name \in SvcNames : resolveCall(name)
    \/ cleanup
    \/ \E name \in SvcNames, settlement \in {"resolve", "reject"} :
        cleanupPromiseSettles(name, settlement)


(***************************************************************************)
(* Message bus: utils/plugin/MessageBus.ts                                  *)
(***************************************************************************)

MsgTypes == {"t", "u"}
Priorities == {0, 1}
SubIds == 0..(MaxSubs - 1)
PubCalls == {1, 2}
\* the slot of a caller that awaits each publish before it makes the next
AwaitedCalls == {c \in PubCalls : \A d \in PubCalls : c <= d}

\* the values of config.handlerTimeout tried: none, and 50 ms
HandlerTimeouts == {0, 50}

\* the values of config.maxSubscriptions tried: no limit, and a limit of one
MaxSubscriptionsTried == {0, 1}

\* What a handler does when it is invoked: return a value ("ok"), throw
\* ("throw"), or return a Promise ("async") that later resolves or rejects.
HandlerModes == {"ok", "throw", "async"}

\* options.filter is absent (FALSE) or a predicate (TRUE) that, per message,
\* returns true, returns false or throws.
SubscriptionOptions == [once : BOOLEAN, priority : Priorities, filter : BOOLEAN]

\* the default options of subscribe: { once: false, priority: 0 }
DefaultOptions == [once |-> FALSE, priority |-> 0, filter |-> FALSE]

\* The subscriptions tried: any options on type "t", the default ones on "u".
OptionsFor(type) == IF type = "t" THEN SubscriptionOptions ELSE {DefaultOptions}

NoSubscription == [id |-> -1, type |-> "t", once |-> FALSE, priority |-> 0, filter |-> FALSE]

\* What the catch block finds in options.errorHandler when a handler failed:
\* nothing ("none"), a function that returns ("returns") or one that throws
\* ("throws").  The option is read nowhere else, so it is chosen where it is read.
ErrorHandlers == {"none", "returns", "throws"}

\* The locals of a publishMessage call.  delivered and outcomes record the
\* subscriptions whose handler was invoked and how each invocation ended;
\* abandoned holds the subscriptions whose handler lost the race against the
\* timeout and has not settled since; threw holds the subscriptions whose
\* filter threw for this message.
IdleCall ==
    [pc |-> "idle", type |-> "t", filtered |-> <<>>, idx |-> 1, pending |-> "none",
     processedCount |-> 0, unsubscribeIds |-> <<>>, delivered |-> <<>>,
     outcomes |-> <<>>, abandoned |-> {}, threw |-> {}, result |-> -1]

\* currentTotal: Array.from(subscriptions.values()).flat().length
RECURSIVE TotalSubscriptions(_, _)
TotalSubscriptions(subs, types) ==
    IF types = {} THEN 0
    ELSE LET t == CHOOSE x \in types : TRUE
         IN  Len(subs[t]) + TotalSubscriptions(subs, types \ {t})

IsSubscribed(subs, id) ==
    \E t \in MsgTypes : \E i \in 1..Len(subs[t]) : subs[t][i].id = id

\* unsubscribe(id) on the map: splice the subscription out of its list
Unsubscribed(subs, id) ==
    [t \in MsgTypes |-> SelectSeq(subs[t], LAMBDA sub : sub.id # id)]

RECURSIVE UnsubscribedAll(_, _)
UnsubscribedAll(subs, ids) ==
    IF ids = <<>> THEN subs
    ELSE UnsubscribedAll(Unsubscribed(subs, Head(ids)), Tail(ids))

\* Array.prototype.sort with (a, b) => b.priority - a.priority is stable:
\* x goes behind every element whose priority is not lower than its own.
InsertByPriority(sorted, x) ==
    LET ahead == {i \in 1..Len(sorted) : sorted[i].priority >= x.priority}
        k == IF ahead = {} THEN 0 ELSE CHOOSE i \in ahead : \A j \in ahead : j <= i
    IN  SubSeq(sorted, 1, k) \o <<x>> \o SubSeq(sorted, k + 1, Len(sorted))

RECURSIVE SortFrom(_, _)
SortFrom(sorted, rest) ==
    IF rest = <<>> THEN sorted
    ELSE SortFrom(InsertByPriority(sorted, Head(rest)), Tail(rest))

\* a sort that puts a subscription in front of the earlier ones of its priority
RECURSIVE SortByPriorityUnstable(_)
SortByPriorityUnstable(subs) ==
    IF subs = <<>> THEN <<>>
    ELSE InsertByPriority(SortByPriorityUnstable(Tail(subs)), Head(subs))

\* sortedSubscriptions = [...subscriptions].sort(by descending priority)
SortByPriority(subs) == SortFrom(<<>>, subs)

\* what options.filter(message) does: return true, return false, or throw
FilterResults == {"true", "false", "throws"}

\* a filter callback that keeps the subscription when the filter throws
KeepsUnlessFalse(result) == result # "false"

\* try { return filter(message) } catch { return false }
Keeps(result) == result = "true"

\* filteredSubscriptions: every outcome the filter pass can have, as the list
\* kept and the ids of the subscriptions whose filter threw. A subscription
\* without filter is kept; one with a filter is kept when Keeps says so.
RECURSIVE FilterOutcomes(_)
FilterOutcomes(sorted) ==
    IF sorted = <<>> THEN {[filtered |-> <<>>, threw |-> {}]}
    ELSE LET rest == FilterOutcomes(Tail(sorted))
             sub == Head(sorted)
             results == IF sub.filter THEN FilterResults ELSE {"true"}
         IN  {[filtered |-> IF Keeps(result) THEN <<sub>> \o r.filtered
                                              ELSE r.filtered,
               threw |-> IF result = "throws" THEN r.threw \cup {sub.id}
                                              ELSE r.threw]
                 : result \in results, r \in rest}

\* The delivery loop works on st = [subscriptions, call].
\* processedCount++ and, for a once subscription, unsubscribeIds.push(id)
HandlerSucceeded(st, sub) ==
    [st EXCEPT !.call.processedCount = @ + 1,
               !.call.unsubscribeIds = IF sub.once THEN Append(@, sub.id) ELSE @,
               !.call.outcomes = Append(@, "ok"),
               !.call.idx = @ + 1,
               !.call.pending = "none"]

\* a catch block that ends the delivery at the first failure
HandlerFailedStopsDelivery(st, errorHandler) ==
    [st EXCEPT !.call.outcomes = Append(@, "failed"),
               !.call.idx = Len(st.call.filtered) + 1,
               !.call.pending = "none"]

\* a catch block that lets the exception of a throwing errorHandler escape
HandlerFailedErrorEscapes(st, errorHandler) ==
    IF errorHandler = "throws"
    THEN [st EXCEPT !.call.outcomes = Append(@, "failed"),
                    !.call.pc = "rejected", !.call.pending = "none"]
    ELSE [st EXCEPT !.call.outcomes = Append(@, "failed"),
                    !.call.idx = @ + 1, !.call.pending = "none"]

\* the catch block: the error goes to errorHandler, whose own exception is
\* caught and logged, or to the log; the loop goes on
HandlerFailed(st, errorHandler) ==
    [st EXCEPT !.call.outcomes = Append(@, "failed"),
               !.call.idx = @ + 1,
               !.call.pending = "none"]

\* after the loop: unsubscribe the recorded once subscriptions, return the count
FinishPublish(st) ==
    [st EXCEPT !.subscriptions = UnsubscribedAll(@, st.call.unsubscribeIds),
               !.call.pc = "done",
               !.call.idx = 1,
               !.call.unsubscribeIds = <<>>,
               !.call.result = st.call.processedCount]

\* The loop from call.idx up to the next await (or to the end): the set of
\* states it can reach, one per choice of what the invoked handlers do.
RECURSIVE DeliverFrom(_, _)
DeliverFrom(st, timeoutMs) ==
    IF st.call.pc = "rejected" THEN {st}    \* an exception left the loop
    ELSE IF st.call.idx > Len(st.call.filtered) THEN {FinishPublish(st)}
    ELSE
        LET sub == st.call.filtered[st.call.idx]
            invoked == [st EXCEPT !.call.delivered = Append(@, sub)]
        IN  UNION {
                IF mode = "throw"
                THEN UNION {DeliverFrom(HandlerFailed(invoked, errorHandler), timeoutMs)
                              : errorHandler \in ErrorHandlers}
                ELSE IF mode = "async" \/ timeoutMs > 0
                THEN {[invoked EXCEPT !.call.pc = "awaitHandler",
                                      !.call.pending = mode]}
                ELSE DeliverFrom(HandlerSucceeded(invoked, sub), timeoutMs)
              : mode \in HandlerModes }

\* a race that no timer takes part in
SettlementsWithoutTimeout(pending, timeoutMs) ==
    IF pending = "ok" THEN {"resolve"} ELSE {"resolve", "reject"}

\* how the awaited handler (or its race against the timeout) can settle
Settlements(pending, timeoutMs) ==
    IF pending = "ok" THEN {"resolve"}
    ELSE {"resolve", "reject"} \cup (IF timeoutMs > 0 THEN {"timeout"} ELSE {})

FreeSlots == {c \in PubCalls : pub[c].pc \in {"idle", "done", "rejected"}}

\* a limit check that lets one subscription too many in
LimitReachedOffByOne(subs, maxSubs) ==
    maxSubs > 0 /\ TotalSubscriptions(subs, MsgTypes) > maxSubs

\* maxSubs > 0 && currentTotal >= maxSubs
LimitReached(subs, maxSubs) ==
    maxSubs > 0 /\ TotalSubscriptions(subs, MsgTypes) >= maxSubs

\* a subscribe whose subscription also joins the list of a delivery in
\* progress for its type
subscribeSeenByDelivery(type, options) ==
    /\ subscriptionIdCounter < MaxSubs
    /\ IF LimitReached(subscriptions, maxSubscriptions)
       THEN UNCHANGED <<subscriptions, subscriptionIdCounter, pub>>
       ELSE /\ LET subscription == [id |-> subscriptionIdCounter, type |-> type,
                                    once |-> options.once,
                                    priority |-> options.priority,
                                    filter |-> options.filter]
               IN  /\ subscriptions' = [subscriptions EXCEPT
                                           ![type] = Append(@, subscription)]
                   /\ pub' = [c \in PubCalls |->
                                 IF pub[c].pc = "awaitHandler" /\ pub[c].type = type
                                 THEN [pub[c] EXCEPT !.filtered = Append(@, subscription)]
                                 ELSE pub[c]]
            /\ subscriptionIdCounter' = subscriptionIdCounter + 1
    /\ UNCHANGED <<handlerTimeout, maxSubscriptions, published>>
    /\ UNCHANGED <<diVars, pmVars, basePlugin, debouncer>>

\* subscribe throws at the limit, before it takes an id; otherwise it appends
\* the subscription to the list of its type and returns the id
subscribe(type, options) ==
    /\ subscriptionIdCounter < MaxSubs
    /\ IF LimitReached(subscriptions, maxSubscriptions)
       THEN UNCHANGED <<subscriptions, subscriptionIdCounter>>
       ELSE /\ LET subscription == [id |-> subscriptionIdCounter, type |-> type,
                                    once |-> options.once,
                                    priority |-> options.priority,
                                    filter |-> options.filter]
               IN  subscriptions' = [subscriptions EXCEPT
                                        ![type] = Append(@, subscription)]
            /\ subscriptionIdCounter' = subscriptionIdCounter + 1
    /\ UNCHANGED <<handlerTimeout, maxSubscriptions, pub, published>>
    /\ UNCHANGED <<diVars, pmVars, basePlugin, debouncer>>

once(type, options) == subscribe(type, [options EXCEPT !.once = TRUE])

unsubscribe(id) ==
    /\ IsSubscribed(subscriptions, id)
    /\ subscriptions' = Unsubscribed(subscriptions, id)
    /\ UNCHANGED <<subscriptionIdCounter, handlerTimeout, maxSubscriptions, pub, published>>
    /\ UNCHANGED <<diVars, pmVars, basePlugin, debouncer>>

unsubscribeAll(type) ==
    /\ subscriptions[type] # <<>>
    /\ subscriptions' = [subscriptions EXCEPT ![type] = <<>>]
    /\ UNCHANGED <<subscriptionIdCounter, handlerTimeout, maxSubscriptions, pub, published>>
    /\ UNCHANGED <<diVars, pmVars, basePlugin, debouncer>>

\* a clear that also restarts the id counter
clearBusResetsCounter ==
    /\ \E t \in MsgTypes : subscriptions[t] # <<>>
    /\ subscriptions' = [t \in MsgTypes |-> <<>>]
    /\ subscriptionIdCounter' = 0
    /\ UNCHANGED <<handlerTimeout, maxSubscriptions, pub, published>>
    /\ UNCHANGED <<diVars, pmVars, basePlugin, debouncer>>

clearBus ==
    /\ \E t \in MsgTypes : subscriptions[t] # <<>>
    /\ subscriptions' = [t \in MsgTypes |-> <<>>]
    /\ UNCHANGED <<subscriptionIdCounter, handlerTimeout, maxSubscriptions, pub, published>>
    /\ UNCHANGED <<diVars, pmVars, basePlugin, debouncer>>

\* publishMessage (and publish, which only builds the message for it) up to
\* its first await
publishMessage(c, type) ==
    /\ published < MaxPublishes
    /\ c \in FreeSlots /\ \A d \in FreeSlots : c <= d
    /\ published' = published + 1
    /\ IF subscriptions[type] = <<>>
       THEN /\ pub' = [pub EXCEPT ![c] = [IdleCall EXCEPT !.pc = "done", !.type = type,
                                                          !.result = 0]]
            /\ UNCHANGED subscriptions
       ELSE \E pass \in FilterOutcomes(SortByPriority(subscriptions[type])) :
            \E st \in DeliverFrom(
                        [subscriptions |-> subscriptions,
                         call |-> [IdleCall EXCEPT !.pc = "running", !.type = type,
                                                   !.filtered = pass.filtered,
                                                   !.threw = pass.threw]],
                        handlerTimeout) :
                /\ pub' = [pub EXCEPT ![c] = st.call]
                /\ subscriptions' = st.subscriptions
    /\ UNCHANGED <<subscriptionIdCounter, handlerTimeout, maxSubscriptions>>
    /\ UNCHANGED <<diVars, pmVars, basePlugin, debouncer>>

\* A publishMessage call made while another one is suspended on a handler:
\* by a second caller, or by that handler itself.  It takes the slot no call
\* has used yet.
publishMeanwhile(c, type) ==
    /\ c \notin AwaitedCalls /\ pub[c].pc = "idle"
    /\ \E d \in PubCalls : pub[d].pc = "awaitHandler"
    /\ published' = published + 1
    /\ IF subscriptions[type] = <<>>
       THEN /\ pub' = [pub EXCEPT ![c] = [IdleCall EXCEPT !.pc = "done", !.type = type,
                                                          !.result = 0]]
            /\ UNCHANGED subscriptions
       ELSE \E pass \in FilterOutcomes(SortByPriority(subscriptions[type])) :
            \E st \in DeliverFrom(
                        [subscriptions |-> subscriptions,
                         call |-> [IdleCall EXCEPT !.pc = "running", !.type = type,
                                                   !.filtered = pass.filtered,
                                                   !.threw = pass.threw]],
                        handlerTimeout) :
                /\ pub' = [pub EXCEPT ![c] = st.call]
                /\ subscriptions' = st.subscriptions
    /\ UNCHANGED <<subscriptionIdCounter, handlerTimeout, maxSubscriptions>>
    /\ UNCHANGED <<diVars, pmVars, basePlugin, debouncer>>

\* the awaited handler settles and the loop goes on to the next await
\* On a timeout the race is lost by a handler that goes on running.
handlerSettles(c, settlement) ==
    /\ pub[c].pc = "awaitHandler"
    /\ settlement \in Settlements(pub[c].pending, handlerTimeout)
    /\ LET sub == pub[c].filtered[pub[c].idx]
           st == [subscriptions |-> subscriptions,
                  call |-> [pub[c] EXCEPT !.pc = "running",
                                          !.abandoned = IF settlement = "timeout"
                                                        THEN @ \cup {sub.id} ELSE @]]
           nexts == IF settlement = "resolve"
                    THEN {HandlerSucceeded(st, sub)}
                    ELSE {HandlerFailed(st, errorHandler) : errorHandler \in ErrorHandlers}
       IN  \E next \in nexts : \E after \in DeliverFrom(next, handlerTimeout) :
                /\ pub' = [pub EXCEPT ![c] = after.call]
                /\ subscriptions' = after.subscriptions
    /\ UNCHANGED <<subscriptionIdCounter, handlerTimeout, maxSubscriptions, published>>
    /\ UNCHANGED <<diVars, pmVars, basePlugin, debouncer>>

\* a handler that lost the race against the timeout resolves or rejects;
\* nobody is waiting for it any more
abandonedHandlerSettles(c, id) ==
    /\ id \in pub[c].abandoned
    /\ pub' = [pub EXCEPT ![c].abandoned = @ \ {id}]
    /\ UNCHANGED <<subscriptions, subscriptionIdCounter, handlerTimeout, maxSubscriptions, published>>
    /\ UNCHANGED <<diVars, pmVars, basePlugin, debouncer>>

\* BasePlugin (utils/plugin/BasePlugin.ts) as constructed: subscriptionIds = new Set()
NewBasePlugin == [subscriptionIds |-> {}, issued |-> {}, cancelled |-> {}]

\* subscribeMessage(type, handler, options): messageBus.subscribe, then
\* subscriptionIds.add(id); a subscribe that throws adds nothing
subscribeMessage(type, options) ==
    /\ subscriptionIdCounter < MaxSubs
    /\ IF LimitReached(subscriptions, maxSubscriptions)
       THEN UNCHANGED <<subscriptions, subscriptionIdCounter, basePlugin, debouncer>>
       ELSE /\ LET subscription == [id |-> subscriptionIdCounter, type |-> type,
                                    once |-> options.once,
                                    priority |-> options.priority,
                                    filter |-> options.filter]
               IN  subscriptions' = [subscriptions EXCEPT
                                        ![type] = Append(@, subscription)]
            /\ subscriptionIdCounter' = subscriptionIdCounter + 1
            /\ basePlugin' = [basePlugin EXCEPT
                                 !.subscriptionIds = @ \cup {subscriptionIdCounter},
                                 !.issued = @ \cup {subscriptionIdCounter}]
    /\ UNCHANGED <<handlerTimeout, maxSubscriptions, pub, published>>
    /\ UNCHANGED <<diVars, pmVars, debouncer>>

\* unsubscribeMessage(id): messageBus.unsubscribe(id) and, when that
\* succeeded, subscriptionIds.delete(id)
unsubscribeMessage(id) ==
    /\ id \in basePlugin.issued
    /\ subscriptions' = Unsubscribed(subscriptions, id)
    /\ basePlugin' = IF IsSubscribed(subscriptions, id)
                     THEN [basePlugin EXCEPT !.subscriptionIds = @ \ {id}]
                     ELSE basePlugin
    /\ UNCHANGED <<subscriptionIdCounter, handlerTimeout, maxSubscriptions, pub, published>>
    /\ UNCHANGED <<diVars, pmVars, debouncer>>

\* an onDeactivate that forgets its ids without cancelling them
onDeactivateForgetsOnly ==
    /\ basePlugin.issued # {}
    /\ basePlugin' = [basePlugin EXCEPT !.subscriptionIds = {},
                                        !.cancelled = basePlugin.issued]
    /\ UNCHANGED <<subscriptions, subscriptionIdCounter, handlerTimeout,
                   maxSubscriptions, pub, published>>
    /\ UNCHANGED <<diVars, pmVars, debouncer>>

\* BasePlugin.onDeactivate: messageBus.unsubscribe(id) for every id of
\* subscriptionIds, then subscriptionIds.clear()
onDeactivate ==
    /\ basePlugin.issued # {}
    /\ subscriptions' =
          [t \in MsgTypes |->
              SelectSeq(subscriptions[t],
                        LAMBDA sub : sub.id \notin basePlugin.subscriptionIds)]
    /\ basePlugin' = [basePlugin EXCEPT !.subscriptionIds = {},
                                        !.cancelled = basePlugin.issued]
    /\ UNCHANGED <<subscriptionIdCounter, handlerTimeout, maxSubscriptions, pub, published>>
    /\ UNCHANGED <<diVars, pmVars, debouncer>>

\* a bus configured with a handler timeout and no subscription limit
InitBusTimeout ==
    /\ subscriptions = [t \in MsgTypes |-> <<>>]
    /\ subscriptionIdCounter = 0
    /\ handlerTimeout = 50
    /\ maxSubscriptions = 0
    /\ pub = [c \in PubCalls |-> IdleCall]
    /\ published = 0
    /\ basePlugin = NewBasePlugin

InitBus ==
    /\ subscriptions = [t \in MsgTypes |-> <<>>]
    /\ subscriptionIdCounter = 0
    /\ handlerTimeout \in HandlerTimeouts
    /\ maxSubscriptions \in MaxSubscriptionsTried
    /\ pub = [c \in PubCalls |-> IdleCall]
    /\ published = 0
    /\ basePlugin = NewBasePlugin

NextBus ==
    \/ \E type \in MsgTypes : \E options \in OptionsFor(type) : subscribe(type, options)
    \/ \E type \in MsgTypes : \E options \in OptionsFor(type) : once(type, options)
    \/ \E id \in SubIds : unsubscribe(id)
    \/ \E type \in MsgTypes : unsubscribeAll(type)
    \/ clearBus
    \/ \E c \in AwaitedCalls, type \in MsgTypes : publishMessage(c, type)
    \/ \E c \in PubCalls, settlement \in {"resolve", "reject", "timeout"} :
          handlerSettles(c, settlement)
    \/ \E c \in PubCalls, id \in SubIds : abandonedHandlerSettles(c, id)

\* a bus constructed with the default config: no timeout, no limit
InitBusDefault ==
    /\ subscriptions = [t \in MsgTypes |-> <<>>]
    /\ subscriptionIdCounter = 0
    /\ handlerTimeout = 0
    /\ maxSubscriptions = 0
    /\ pub = [c \in PubCalls |-> IdleCall]
    /\ published = 0
    /\ basePlugin = NewBasePlugin

\* publish calls that overlap
NextBusConcurrent ==
    \/ \E type \in MsgTypes : \E options \in OptionsFor(type) : subscribe(type, options)
    \/ \E type \in MsgTypes : \E options \in OptionsFor(type) : once(type, options)
    \/ \E c \in AwaitedCalls, type \in MsgTypes : publishMessage(c, type)
    \/ \E c \in PubCalls, type \in MsgTypes : publishMeanwhile(c, type)
    \/ \E c \in PubCalls, settlement \in {"resolve", "reject"} :
          handlerSettles(c, settlement)

\* a plugin derived from BasePlugin among the users of the bus, all of them
\* subscribing with the default options
NextBasePlugin ==
    \/ \E type \in MsgTypes : subscribeMessage(type, DefaultOptions)
    \/ \E id \in SubIds : unsubscribeMessage(id)
    \/ onDeactivate
    \/ \E type \in MsgTypes : subscribe(type, DefaultOptions)
    \/ \E id \in SubIds : unsubscribe(id)
    \/ \E c \in AwaitedCalls, type \in MsgTypes : publishMessage(c, type)
    \/ \E c \in PubCalls, settlement \in {"resolve", "reject"} :
          handlerSettles(c, settlement)

(***************************************************************************)
(* Plugin manager: utils/plugin/PluginManager.ts                            *)
(*                                                                         *)
(* An async method runs from one await to the next without interruption;   *)
(* at an await any other call in flight may run.  The bus is reduced to    *)
(* what the manager needs of it: publishMessage records the event in the   *)
(* call's trace and is awaited.                                            *)
(***************************************************************************)
PluginNames == {"P", "D"}
NoPlugin == 0
CallSlots == {1, 2}

\* The plugin instances the host registers.  Instance 1 ("P") requires "D"
\* and optionally uses "O", a plugin that is never registered; instance 3 is
\* a second "P", without dependencies and without hooks.
Plugin ==
    [i \in {1, 2, 3} |->
        IF i = 1 THEN
            [name |-> "P",
             dependencies |-> << [name |-> "D", required |-> TRUE],
                                 [name |-> "O", required |-> FALSE] >>,
             onActivate |-> TRUE, onDeactivate |-> TRUE]
        ELSE IF i = 2 THEN
            [name |-> "D", dependencies |-> <<>>,
             onActivate |-> TRUE, onDeactivate |-> TRUE]
        ELSE
            [name |-> "P", dependencies |-> <<>>,
             onActivate |-> FALSE, onDeactivate |-> FALSE]]

Instances == DOMAIN Plugin

\* PluginLifecycleEvents
BEFORE_ACTIVATE == "plugin:before-activate"
ACTIVATED == "plugin:activated"
ACTIVATION_FAILED == "plugin:activation-failed"
BEFORE_DEACTIVATE == "plugin:before-deactivate"
DEACTIVATED == "plugin:deactivated"
DEACTIVATION_FAILED == "plugin:deactivation-failed"

\* A lifecycle hook, when invoked, returns, throws, or returns a Promise
\* that later resolves or rejects; each invocation may do any of these.

IdleSlot ==
    [op |-> "none", name |-> "P", plugin |-> NoPlugin, pc |-> "idle",
     activeAtCheck |-> <<>>, isAvailable |-> "unset", trace |-> <<>>,
     result |-> "none"]

\* Set.add / Set.delete on the insertion-ordered active set
SetAdd(set, name) == IF InSeq(name, set) THEN set ELSE Append(set, name)

isActive(name) == InSeq(name, activePlugins)

\* The manager state a call works on: pm = [plugins, activePlugins, availOk, call]
\* messageBus.publishMessage({type, payload: {pluginName, error}})
Publish(pm, type, error) ==
    [pm EXCEPT !.call.trace = Append(@, [kind |-> type, error |-> error])]

\* a lifecycle hook of the plugin is invoked
Invoke(pm, hook) ==
    [pm EXCEPT !.call.trace = Append(@, [kind |-> hook, error |-> <<>>])]

Await(pm, pc) == [pm EXCEPT !.call.pc = pc]

\* the call settles: its locals are gone, its result stays with the caller
Return(pm, result) == [pm EXCEPT !.call = [IdleSlot EXCEPT !.pc = "done", !.result = result]]

\* a dependency check that lets every declared dependency block
MissingDependenciesIgnoringRequired(dependencies, active) ==
    SelectSeq(dependencies, LAMBDA dep : ~InSeq(dep.name, active))

\* missingDependencies: the required dependencies that are not active
MissingDependencies(dependencies, active) ==
    SelectSeq(dependencies, LAMBDA dep : ~InSeq(dep.name, active) /\ dep.required)

DependencyNames(dependencies) == [i \in 1..Len(dependencies) |-> dependencies[i].name]

\* an activation that publishes plugin:activated without the add
MarkActiveWithoutAdd(pm) ==
    Await(Publish(pm, ACTIVATED, <<>>), "awaitActivated")

\* activePlugins.add(name), then publish plugin:activated
MarkActive(pm) ==
    Await(Publish([pm EXCEPT !.activePlugins = SetAdd(@, pm.call.name)],
                  ACTIVATED, <<>>),
          "awaitActivated")

\* the catch block of the onActivate hook: publish plugin:activation-failed
ActivationHookFailed(pm) ==
    Await(Publish(pm, ACTIVATION_FAILED, <<"onActivate">>), "awaitHookFailed")

\* Step 4: call the onActivate hook, if the plugin has one
RunOnActivate(pm) ==
    IF ~Plugin[pm.call.plugin].onActivate THEN {MarkActive(pm)}
    ELSE LET invoked == Invoke(pm, "onActivate")
         IN  {MarkActive(invoked),
              ActivationHookFailed(invoked),
              Await(invoked, "awaitOnActivate")}

\* Step 2: check the dependencies; then publish the failure or call isAvailable()
CheckDependencies(pm) ==
    LET missing == MissingDependencies(Plugin[pm.call.plugin].dependencies,
                                       pm.activePlugins)
        checked == [pm EXCEPT !.call.activeAtCheck = pm.activePlugins]
    IN  IF missing # <<>>
        THEN Await(Publish(checked, ACTIVATION_FAILED, DependencyNames(missing)),
                   "awaitDependenciesFailed")
        ELSE Await(checked, "awaitIsAvailable")

\* an already active plugin: call its onDeactivate hook before the checks
RestartHook(pm) ==
    IF InSeq(pm.call.name, pm.activePlugins) /\ Plugin[pm.call.plugin].onDeactivate
    THEN LET invoked == Invoke(pm, "onDeactivate")
         IN  {CheckDependencies(invoked), Await(invoked, "awaitRestartHook")}
    ELSE {CheckDependencies(pm)}

\* an activate that publishes plugin:before-activate before it looks the
\* name up
ActivateBeginsPublishesFirst(pm, name) ==
    LET plugin == pm.plugins[name]
        begun == [pm EXCEPT !.call = [IdleSlot EXCEPT !.op = "activate", !.name = name,
                                                     !.plugin = plugin, !.pc = "running"]]
    IN  IF plugin = NoPlugin
        THEN Await(Publish(begun, BEFORE_ACTIVATE, <<>>), "awaitDependenciesFailed")
        ELSE Await(Publish(begun, BEFORE_ACTIVATE, <<>>), "awaitBeforeActivate")

\* activate(name) up to its first await
ActivateBegins(pm, name) ==
    LET plugin == pm.plugins[name]
        begun == [pm EXCEPT !.call = [IdleSlot EXCEPT !.op = "activate", !.name = name,
                                                     !.plugin = plugin, !.pc = "running"]]
    IN  IF plugin = NoPlugin THEN Return(begun, "false")
        ELSE Await(Publish(begun, BEFORE_ACTIVATE, <<>>), "awaitBeforeActivate")

\* What the awaited promise can settle to, by the await the call is at.
Settlements_PM(pc) ==
    IF pc = "awaitIsAvailable" THEN {"true", "false", "reject"}
    ELSE IF pc \in {"awaitRestartHook", "awaitOnActivate", "awaitOnDeactivate",
                    "awaitUnregisterHook"}
    THEN {"resolve", "reject"}
    ELSE {"resolve"}

\* activate(name) from the await it is at to the next one (or to its return)
ActivateContinues(pm, settlement, throwOnError) ==
    LET pc == pm.call.pc IN
    IF pc = "awaitBeforeActivate" THEN RestartHook(pm)
    ELSE IF pc = "awaitRestartHook" THEN {CheckDependencies(pm)}
    ELSE IF pc = "awaitDependenciesFailed" THEN {Return(pm, "false")}
    ELSE IF pc = "awaitIsAvailable" THEN
        IF settlement = "reject" THEN {Return(pm, "rejected")}
        ELSE IF settlement = "false"
        THEN {Await(Publish([pm EXCEPT !.call.isAvailable = "false"],
                            ACTIVATION_FAILED, <<"unavailable">>),
                    "awaitUnavailable")}
        ELSE RunOnActivate([pm EXCEPT !.call.isAvailable = "true",
                                      !.availOk = @ \cup {pm.call.plugin}])
    ELSE IF pc = "awaitUnavailable" THEN {Return(pm, "false")}
    ELSE IF pc = "awaitOnActivate" THEN
        IF settlement = "resolve" THEN {MarkActive(pm)} ELSE {ActivationHookFailed(pm)}
    ELSE IF pc = "awaitHookFailed" THEN
        IF throwOnError THEN {Return(pm, "rejected")} ELSE {MarkActive(pm)}
    ELSE \* awaitActivated
        {Return(pm, "true")}

\* a deactivation that publishes plugin:deactivated without the delete
MarkInactiveKeepsActive(pm) ==
    Await(Publish(pm, DEACTIVATED, <<>>), "awaitDeactivated")

\* a deactivation that also deactivates the plugins requiring the name
MarkInactiveCascading(pm) ==
    Await(Publish([pm EXCEPT !.activePlugins =
                      SelectSeq(@, LAMBDA n :
                          /\ n # pm.call.name
                          /\ \/ pm.plugins[n] = NoPlugin
                             \/ \A i \in 1..Len(Plugin[pm.plugins[n]].dependencies) :
                                   LET dep == Plugin[pm.plugins[n]].dependencies[i]
                                   IN  ~(dep.required /\ dep.name = pm.call.name))],
                  DEACTIVATED, <<>>),
          "awaitDeactivated")

\* activePlugins.delete(name), then publish plugin:deactivated
MarkInactive(pm) ==
    Await(Publish([pm EXCEPT !.activePlugins = SeqDelete(@, pm.call.name)],
                  DEACTIVATED, <<>>),
          "awaitDeactivated")

\* the catch block of the onDeactivate hook: publish plugin:deactivation-failed
DeactivationHookFailed(pm) ==
    Await(Publish(pm, DEACTIVATION_FAILED, <<"onDeactivate">>), "awaitDeactivationFailed")

\* deactivate(name) up to its first await
DeactivateBegins(pm, name) ==
    LET plugin == pm.plugins[name]
        begun == [pm EXCEPT !.call = [IdleSlot EXCEPT !.op = "deactivate", !.name = name,
                                                     !.plugin = plugin, !.pc = "running"]]
    IN  IF plugin = NoPlugin THEN Return(begun, "false")
        ELSE IF ~InSeq(name, pm.activePlugins) THEN Return(begun, "false")
        ELSE Await(Publish(begun, BEFORE_DEACTIVATE, <<>>), "awaitBeforeDeactivate")

DeactivateContinues(pm, settlement, throwOnError) ==
    LET pc == pm.call.pc IN
    IF pc = "awaitBeforeDeactivate" THEN
        IF ~Plugin[pm.call.plugin].onDeactivate THEN {MarkInactive(pm)}
        ELSE LET invoked == Invoke(pm, "onDeactivate")
             IN  {MarkInactive(invoked),
                  DeactivationHookFailed(invoked),
                  Await(invoked, "awaitOnDeactivate")}
    ELSE IF pc = "awaitOnDeactivate" THEN
        IF settlement = "resolve" THEN {MarkInactive(pm)} ELSE {DeactivationHookFailed(pm)}
    ELSE IF pc = "awaitDeactivationFailed" THEN
        IF throwOnError THEN {Return(pm, "rejected")} ELSE {MarkInactive(pm)}
    ELSE \* awaitDeactivated
        {Return(pm, "true")}

\* plugins.delete(name); activePlugins.delete(name)
Forget(pm) ==
    Return([pm EXCEPT !.plugins[pm.call.name] = NoPlugin,
                      !.activePlugins = SeqDelete(@, pm.call.name)],
           "void")

\* the catch block of unregister
UnregisterHookFailed(pm, throwOnError) ==
    IF throwOnError THEN Return(pm, "rejected") ELSE Forget(pm)

\* unregister(name) up to its first await (or to its return)
UnregisterBegins(pm, name, throwOnError) ==
    LET plugin == pm.plugins[name]
        begun == [pm EXCEPT !.call = [IdleSlot EXCEPT !.op = "unregister", !.name = name,
                                                     !.plugin = plugin, !.pc = "running"]]
    IN  IF plugin = NoPlugin THEN {Return(begun, "void")}
        ELSE IF ~Plugin[plugin].onDeactivate THEN {Forget(begun)}
        ELSE LET invoked == Invoke(begun, "onDeactivate")
             IN  {Forget(invoked),
                  UnregisterHookFailed(invoked, throwOnError),
                  Await(invoked, "awaitUnregisterHook")}

UnregisterContinues(pm, settlement, throwOnError) ==
    IF settlement = "resolve" THEN {Forget(pm)}
    ELSE {UnregisterHookFailed(pm, throwOnError)}

PmState(c) ==
    [plugins |-> plugins, activePlugins |-> activePlugins, availOk |-> availOk,
     call |-> calls[c]]

\* the manager after a step of call c
PmBecomes(c, pm) ==
    /\ plugins' = pm.plugins
    /\ activePlugins' = pm.activePlugins
    /\ availOk' = pm.availOk
    /\ calls' = [calls EXCEPT ![c] = pm.call]

\* no activateMultiple call
\* (fresh: when the call began no other call was in flight and the names were
\* registered, without dependencies and inactive; undisturbed: no other
\* operation has begun since)
IdleMulti ==
    [pc |-> "idle", names |-> <<>>, members |-> <<>>, fresh |-> FALSE,
     undisturbed |-> TRUE, result |-> -1]

\* the calls whose promise an activateMultiple in flight is waiting for
Members == IF multi.pc = "awaiting"
           THEN {multi.members[i] : i \in 1..Len(multi.members)} ELSE {}

\* no deactivateAll call
\* (names: Array.from(activePlugins) taken when the call began; idx: the name
\* being deactivated; member: the deactivate call awaited; alone: no other
\* call was in flight when the call began and none has begun since; count:
\* the deactivateAll calls made so far)
IdleAll ==
    [pc |-> "idle", names |-> <<>>, idx |-> 0, member |-> 0, alone |-> TRUE,
     count |-> 0]

\* the deactivate call a deactivateAll in flight is waiting for
AllMember == IF all.pc = "awaiting" THEN {all.member} ELSE {}

FreeCallSlots ==
    {c \in CallSlots : calls[c].pc \in {"idle", "done"}} \ (Members \cup AllMember)

\* another operation begins while a deactivateAll is in flight
DisturbedAll(a) == IF a.pc = "awaiting" THEN [a EXCEPT !.alone = FALSE] ELSE a

\* another operation runs while an activateMultiple is in flight
Disturbed(m) == IF m.pc = "awaiting" THEN [m EXCEPT !.undisturbed = FALSE] ELSE m

\* a new call takes the first free slot
Starts(c) ==
    /\ started < MaxCalls
    /\ c \in FreeCallSlots /\ \A d \in FreeCallSlots : c <= d
    /\ started' = started + 1
    /\ multi' = Disturbed(multi)
    /\ all' = DisturbedAll(all)

Suspended(c, op) ==
    /\ calls[c].op = op
    /\ calls[c].pc \notin {"idle", "done"}

register(plugin) ==
    /\ plugins' = [plugins EXCEPT ![Plugin[plugin].name] = plugin]
    /\ UNCHANGED <<activePlugins, throwOnActivationError, throwOnDeactivationError,
                   calls, availOk, started, multi, all>>
    /\ UNCHANGED <<diVars, busVars, basePlugin, debouncer>>

clearPlugins ==
    /\ plugins' = [n \in PluginNames |-> NoPlugin]
    /\ activePlugins' = <<>>
    /\ multi' = Disturbed(multi)
    /\ all' = DisturbedAll(all)
    /\ UNCHANGED <<throwOnActivationError, throwOnDeactivationError, calls, availOk,
                   started>>
    /\ UNCHANGED <<diVars, busVars, basePlugin, debouncer>>

activate(c, name) ==
    /\ Starts(c)
    /\ PmBecomes(c, ActivateBegins(PmState(c), name))
    /\ UNCHANGED <<throwOnActivationError, throwOnDeactivationError>>
    /\ UNCHANGED <<diVars, busVars, basePlugin, debouncer>>

activateContinues(c, settlement) ==
    /\ Suspended(c, "activate")
    /\ settlement \in Settlements_PM(calls[c].pc)
    /\ \E pm \in ActivateContinues(PmState(c), settlement, throwOnActivationError) :
          PmBecomes(c, pm)
    /\ UNCHANGED <<throwOnActivationError, throwOnDeactivationError, started, multi, all>>
    /\ UNCHANGED <<diVars, busVars, basePlugin, debouncer>>

deactivate(c, name) ==
    /\ Starts(c)
    /\ PmBecomes(c, DeactivateBegins(PmState(c), name))
    /\ UNCHANGED <<throwOnActivationError, throwOnDeactivationError>>
    /\ UNCHANGED <<diVars, busVars, basePlugin, debouncer>>

deactivateContinues(c, settlement) ==
    /\ Suspended(c, "deactivate")
    /\ settlement \in Settlements_PM(calls[c].pc)
    /\ \E pm \in DeactivateContinues(PmState(c), settlement, throwOnDeactivationError) :
          PmBecomes(c, pm)
    /\ UNCHANGED <<throwOnActivationError, throwOnDeactivationError, started, multi, all>>
    /\ UNCHANGED <<diVars, busVars, basePlugin, debouncer>>

unregister(c, name) ==
    /\ Starts(c)
    /\ \E pm \in UnregisterBegins(PmState(c), name, throwOnDeactivationError) :
          PmBecomes(c, pm)
    /\ UNCHANGED <<throwOnActivationError, throwOnDeactivationError>>
    /\ UNCHANGED <<diVars, busVars, basePlugin, debouncer>>

unregisterContinues(c, settlement) ==
    /\ Suspended(c, "unregister")
    /\ settlement \in Settlements_PM(calls[c].pc)
    /\ \E pm \in UnregisterContinues(PmState(c), settlement, throwOnDeactivationError) :
          PmBecomes(c, pm)
    /\ UNCHANGED <<throwOnActivationError, throwOnDeactivationError, started, multi, all>>
    /\ UNCHANGED <<diVars, busVars, basePlugin, debouncer>>

\* the name lists activateMultiple is called with
NameLists == {<<"P">>, <<"D">>, <<"P", "D">>, <<"D", "P">>}

\* the n lowest free slots, in increasing order
RECURSIVE LowestSlots(_, _)
LowestSlots(free, n) ==
    IF n = 0 THEN <<>>
    ELSE LET c == CHOOSE x \in free : \A y \in free : x <= y
         IN  <<c>> \o LowestSlots(free \ {c}, n - 1)

\* names.map(async (name) => await this.activate(name)): each activate runs up
\* to its first await before the next one starts.  st = [plugins,
\* activePlugins, availOk, calls]
RECURSIVE BeginAll(_, _, _)
BeginAll(st, names, slots) ==
    IF names = <<>> THEN st
    ELSE LET pm == ActivateBegins([plugins |-> st.plugins,
                                   activePlugins |-> st.activePlugins,
                                   availOk |-> st.availOk,
                                   call |-> st.calls[Head(slots)]],
                                  Head(names))
         IN  BeginAll([plugins |-> pm.plugins, activePlugins |-> pm.activePlugins,
                       availOk |-> pm.availOk,
                       calls |-> [st.calls EXCEPT ![Head(slots)] = pm.call]],
                      Tail(names), Tail(slots))

\* activateMultiple(names) up to its await of Promise.all
activateMultiple(names) ==
    /\ multi.pc # "awaiting"
    /\ started + Len(names) <= MaxCalls
    /\ Len(names) <= Cardinality(FreeCallSlots)
    /\ LET slots == LowestSlots(FreeCallSlots, Len(names))
           st == BeginAll([plugins |-> plugins, activePlugins |-> activePlugins,
                           availOk |-> availOk, calls |-> calls], names, slots)
       IN  /\ plugins' = st.plugins
           /\ activePlugins' = st.activePlugins
           /\ availOk' = st.availOk
           /\ calls' = st.calls
           /\ multi' = [IdleMulti EXCEPT
                          !.pc = "awaiting", !.names = names, !.members = slots,
                          !.fresh =
                              /\ \A c \in CallSlots : calls[c].pc \in {"idle", "done"}
                              /\ \A i \in 1..Len(names) :
                                    /\ plugins[names[i]] # NoPlugin
                                    /\ Plugin[plugins[names[i]]].dependencies = <<>>
                                    /\ ~InSeq(names[i], activePlugins)]
    /\ started' = started + Len(names)
    /\ all' = DisturbedAll(all)
    /\ UNCHANGED <<throwOnActivationError, throwOnDeactivationError>>
    /\ UNCHANGED <<diVars, busVars, basePlugin, debouncer>>

\* a count that takes every activation for a success
SuccessCountOfAll(members) == Len(members)

\* successCount = activationResults.filter((r) => r.success).length
SuccessCount(members) ==
    Cardinality({i \in 1..Len(members) : calls[members[i]].result = "true"})

\* Promise.all settles: it rejects as soon as one activate has rejected, and
\* resolves once all of them have returned
activateMultipleSettles ==
    /\ multi.pc = "awaiting"
    /\ IF \E c \in Members : calls[c].pc = "done" /\ calls[c].result = "rejected"
       THEN multi' = [IdleMulti EXCEPT !.pc = "rejected"]
       ELSE /\ \A c \in Members : calls[c].pc = "done"
            /\ multi' = [IdleMulti EXCEPT !.pc = "resolved",
                                          !.result = SuccessCount(multi.members)]
    /\ UNCHANGED <<plugins, activePlugins, throwOnActivationError,
                   throwOnDeactivationError, calls, availOk, started, all>>
    /\ UNCHANGED <<diVars, busVars, basePlugin, debouncer>>

\* deactivateAll() up to its first await: the names are copied from the active
\* set and deactivate(names[0]) runs up to its first await (or to its return)
deactivateAll ==
    /\ all.pc # "awaiting" /\ all.count < MaxDeactivateAlls
    /\ FreeCallSlots # {}
    /\ LET names == activePlugins
           c == CHOOSE x \in FreeCallSlots : \A y \in FreeCallSlots : x <= y
       IN  IF names = <<>>
           THEN /\ all' = [IdleAll EXCEPT !.pc = "resolved", !.count = all.count + 1]
                /\ UNCHANGED <<plugins, activePlugins, calls, availOk>>
           ELSE /\ PmBecomes(c, DeactivateBegins(PmState(c), names[1]))
                /\ all' = [pc |-> "awaiting", names |-> names, idx |-> 1,
                           member |-> c,
                           alone |-> \A d \in CallSlots :
                                        calls[d].pc \in {"idle", "done"},
                           count |-> all.count + 1]
    /\ multi' = Disturbed(multi)
    /\ UNCHANGED <<throwOnActivationError, throwOnDeactivationError, started>>
    /\ UNCHANGED <<diVars, busVars, basePlugin, debouncer>>

\* `await this.deactivate(name)` settles: a rejection leaves deactivateAll, a
\* return goes on to the next name, or to the end of the loop
deactivateAllContinues ==
    /\ all.pc = "awaiting"
    /\ calls[all.member].pc = "done"
    /\ IF calls[all.member].result = "rejected"
       THEN /\ all' = [IdleAll EXCEPT !.pc = "rejected", !.count = all.count]
            /\ UNCHANGED <<plugins, activePlugins, calls, availOk>>
       ELSE IF all.idx = Len(all.names)
       THEN /\ all' = [IdleAll EXCEPT !.pc = "resolved", !.count = all.count]
            /\ UNCHANGED <<plugins, activePlugins, calls, availOk>>
       ELSE /\ PmBecomes(all.member,
                         DeactivateBegins(PmState(all.member), all.names[all.idx + 1]))
            /\ all' = [all EXCEPT !.idx = @ + 1]
    /\ UNCHANGED <<throwOnActivationError, throwOnDeactivationError, started, multi>>
    /\ UNCHANGED <<diVars, busVars, basePlugin, debouncer>>

\* getStats(): total, active, and the active flag of each registered plugin
getStats ==
    [total |-> Cardinality({n \in PluginNames : plugins[n] # NoPlugin}),
     active |-> Len(activePlugins),
     plugins |-> {[name |-> n, active |-> InSeq(n, activePlugins)] :
                     n \in {x \in PluginNames : plugins[x] # NoPlugin}}]

\* the manager as constructed, for either value of the two config flags
InitPM ==
    /\ plugins = [n \in PluginNames |-> NoPlugin]
    /\ activePlugins = <<>>
    /\ throwOnActivationError \in BOOLEAN
    /\ throwOnDeactivationError \in BOOLEAN
    /\ calls = [c \in CallSlots |-> IdleSlot]
    /\ availOk = {}
    /\ started = 0
    /\ multi = IdleMulti
    /\ all = IdleAll

AllSettlements == {"resolve", "reject", "true", "false"}

NextPM ==
    \/ \E plugin \in Instances : register(plugin)
    \/ clearPlugins
    \/ \E c \in CallSlots, name \in PluginNames : activate(c, name)
    \/ \E c \in CallSlots, settlement \in AllSettlements : activateContinues(c, settlement)
    \/ \E c \in CallSlots, name \in PluginNames : deactivate(c, name)
    \/ \E c \in CallSlots, settlement \in AllSettlements : deactivateContinues(c, settlement)
    \/ \E c \in CallSlots, name \in PluginNames : unregister(c, name)
    \/ \E c \in CallSlots, settlement \in AllSettlements : unregisterContinues(c, settlement)

\* a host that activates in bulk: activateMultiple, with deactivate and clear
\* as the operations that may run meanwhile
NextPMBulk ==
    \/ \E plugin \in Instances : register(plugin)
    \/ clearPlugins
    \/ \E names \in NameLists : activateMultiple(names)
    \/ \E c \in CallSlots, settlement \in AllSettlements : activateContinues(c, settlement)
    \/ activateMultipleSettles
    \/ \E c \in CallSlots, name \in PluginNames : deactivate(c, name)
    \/ \E c \in CallSlots, settlement \in AllSettlements : deactivateContinues(c, settlement)

\* a host that shuts down: deactivateAll, with register, activate and
\* unregister as the operations that may have run before or run meanwhile
NextPMAll ==
    \/ \E plugin \in Instances : register(plugin)
    \/ \E c \in CallSlots, name \in PluginNames : activate(c, name)
    \/ \E c \in CallSlots, settlement \in AllSettlements : activateContinues(c, settlement)
    \/ \E c \in CallSlots, name \in PluginNames : unregister(c, name)
    \/ \E c \in CallSlots, settlement \in AllSettlements : unregisterContinues(c, settlement)
    \/ deactivateAll
    \/ \E c \in CallSlots, settlement \in AllSettlements : deactivateContinues(c, settlement)
    \/ deactivateAllContinues

\* subscribing and unsubscribing alone
NextBusSubs ==
    \/ \E type \in MsgTypes : \E options \in OptionsFor(type) : subscribe(type, options)
    \/ \E type \in MsgTypes : \E options \in OptionsFor(type) : once(type, options)
    \/ \E id \in SubIds : unsubscribe(id)
    \/ \E type \in MsgTypes : unsubscribeAll(type)
    \/ clearBus

\* publishing on a bus with a handler timeout, to handlers that may never
\* complete
NextBusTimeout ==
    \/ \E type \in MsgTypes : \E options \in OptionsFor(type) : subscribe(type, options)
    \/ \E c \in AwaitedCalls, type \in MsgTypes : publishMessage(c, type)
    \/ \E c \in PubCalls, settlement \in {"resolve", "reject", "timeout"} :
          handlerSettles(c, settlement)

\* the timer of a race fires unless the race has settled before, and a race
\* won by a value that was there from the start continues
TimersFire ==
    /\ WF_vars(\E c \in PubCalls : handlerSettles(c, "timeout"))
    /\ WF_vars(\E c \in PubCalls : pub[c].pending = "ok" /\ handlerSettles(c, "resolve"))

(***************************************************************************)
(* Debounce manager: utils/debounce.ts                                      *)
(*                                                                         *)
(* setTimeout hands the callback to the runtime, which fires it later      *)
(* unless clearTimeout got there first.  A fired callback runs to its end  *)
(* without interruption.                                                   *)
(***************************************************************************)
Keys == {"a", "b"}
NoTimer == 0

NewDebounceManager ==
    [timers |-> [k \in Keys |-> NoTimer],
     pending |-> {},
     nextTimer |-> 1,
     ran |-> {},
     stopped |-> {}]

\* the pending timers made for key
PendingFor(d, key) == {t \in d.pending : t.key = key}

\* cancel(key): clearTimeout and timers.delete for the timer the map holds
Cancel(d, key) ==
    LET covered == [d EXCEPT !.stopped = @ \cup {t.id : t \in PendingFor(d, key)}]
    IN  IF d.timers[key] = NoTimer THEN covered
        ELSE [covered EXCEPT !.pending = {t \in @ : t.id # d.timers[key]},
                             !.timers[key] = NoTimer]

\* debounce(key, callback, delay): cancel(key), setTimeout, timers.set
Debounce(d, key) ==
    LET cancelled == Cancel(d, key)
        timer == cancelled.nextTimer
    IN  [cancelled EXCEPT !.pending = @ \cup {[id |-> timer, key |-> key]},
                          !.timers[key] = timer,
                          !.nextTimer = timer + 1]

\* What a debounced callback does: it returns (or throws, which leaves the
\* manager in the same state), or it first calls debounce for its own key.
Callbacks == {"returns", "debounces"}

debounce(key) ==
    /\ debouncer.nextTimer <= MaxTimers
    /\ debouncer' = Debounce(debouncer, key)
    /\ UNCHANGED <<diVars, busVars, pmVars, basePlugin>>

cancel(key) ==
    /\ debouncer' = Cancel(debouncer, key)
    /\ UNCHANGED <<diVars, busVars, pmVars, basePlugin>>

\* clearAll(): clearTimeout for every timer of the map, then timers.clear()
clearAll ==
    /\ debouncer' =
          [debouncer EXCEPT
              !.stopped = @ \cup {t.id : t \in debouncer.pending},
              !.pending = {t \in @ : \A k \in Keys : debouncer.timers[k] # t.id},
              !.timers = [k \in Keys |-> NoTimer]]
    /\ UNCHANGED <<diVars, busVars, pmVars, basePlugin>>

\* the runtime fires timer t: try { callback() } finally { timers.delete(key) }
timerFires(t, callback) ==
    /\ t \in debouncer.pending
    /\ callback = "debounces" => debouncer.nextTimer <= MaxTimers
    /\ LET fired == [debouncer EXCEPT !.pending = @ \ {t}, !.ran = @ \cup {t.id}]
           called == IF callback = "debounces" THEN Debounce(fired, t.key) ELSE fired
       IN  debouncer' = [called EXCEPT !.timers[t.key] = NoTimer]
    /\ UNCHANGED <<diVars, busVars, pmVars, basePlugin>>

\* getActiveCount(): timers.size
getActiveCount == Cardinality({k \in Keys : debouncer.timers[k] # NoTimer})

DebounceUnused == debouncer = NewDebounceManager

NextDebounce ==
    \/ \E key \in Keys : debounce(key)
    \/ \E key \in Keys : cancel(key)
    \/ clearAll
    \/ \E id \in 1..MaxTimers, key \in Keys, callback \in Callbacks :
          timerFires([id |-> id, key |-> key], callback)

(***************************************************************************)
(* Specifications: one per component.                                      *)
(***************************************************************************)
\* a bus nobody uses
BusUnused ==
    /\ subscriptions = [t \in MsgTypes |-> <<>>]
    /\ subscriptionIdCounter = 0
    /\ handlerTimeout = 0
    /\ maxSubscriptions = 0
    /\ pub = [c \in PubCalls |-> IdleCall]
    /\ published = 0
    /\ basePlugin = NewBasePlugin

\* a manager nobody uses
PmUnused ==
    /\ plugins = [n \in PluginNames |-> NoPlugin]
    /\ activePlugins = <<>>
    /\ throwOnActivationError = FALSE
    /\ throwOnDeactivationError = FALSE
    /\ calls = [c \in CallSlots |-> IdleSlot]
    /\ availOk = {}
    /\ started = 0
    /\ multi = IdleMulti
    /\ all = IdleAll

\* the container alone
InitSpecDI == InitDI /\ BusUnused /\ PmUnused /\ DebounceUnused

SpecDI == InitSpecDI /\ [][NextDI]_vars

SpecDICleanup == InitSpecDI /\ [][NextDICleanup]_vars

\* the bus alone (the container stays as constructed)
InitSpecBus == InitBus /\ InitDI /\ PmUnused /\ DebounceUnused

SpecBus == InitSpecBus /\ [][NextBus]_vars

\* the plugin manager alone
InitSpecPM == InitPM /\ InitDI /\ BusUnused /\ DebounceUnused

SpecPM == InitSpecPM /\ [][NextPM]_vars

\* the plugin manager under bulk activation
InitSpecPMBulk == InitPM /\ InitDI /\ BusUnused /\ DebounceUnused

SpecPMBulk == InitSpecPMBulk /\ [][NextPMBulk]_vars

\* the bus under subscribe, once, unsubscribe, unsubscribeAll and clear
InitSpecBusConcurrent == InitBusDefault /\ InitDI /\ PmUnused /\ DebounceUnused

SpecBusConcurrent == InitSpecBusConcurrent /\ [][NextBusConcurrent]_vars

InitSpecBasePlugin == InitBusDefault /\ InitDI /\ PmUnused /\ DebounceUnused

SpecBasePlugin == InitSpecBasePlugin /\ [][NextBasePlugin]_vars

\* the debounce manager alone
InitSpecDebounce == DebounceUnused /\ InitDI /\ BusUnused /\ PmUnused

SpecDebounce == InitSpecDebounce /\ [][NextDebounce]_vars

InitSpecBusSubs == InitBus /\ InitDI /\ PmUnused /\ DebounceUnused

SpecBusSubs == InitSpecBusSubs /\ [][NextBusSubs]_vars

\* the bus with a handler timeout, its timers firing
InitSpecBusTimeout == InitBusTimeout /\ InitDI /\ PmUnused /\ DebounceUnused

SpecBusTimeout == InitSpecBusTimeout /\ [][NextBusTimeout]_vars /\ TimersFire

\* the plugin manager under deactivateAll
InitSpecPMAll == InitPM /\ InitDI /\ BusUnused /\ DebounceUnused

SpecPMAll == InitSpecPMAll /\ [][NextPMAll]_vars

(***************************************************************************)
(* Claims about the DI container (checked under SpecDI).                   *)
(***************************************************************************)

\* C3: for every name registered with registerSingleton, all resolve(name)
\* calls between that registration and the next reset, clear or
\* re-registration return the same instance, and the factory is invoked at
\* most once in that period, whatever value the factory returns.
C3_SingletonOneInstance ==
    \A n \in SvcNames :
        lifetime[n] = "singleton" =>
            /\ made[n] <= 1
            /\ \A i, j \in 1..Len(got[n]) : got[n][i] = got[n][j]

\* C4: for every name registered with registerTransient, each resolve(name)
\* invokes the factory again and returns a fresh instance, distinct from the
\* instance every earlier resolve(name) returned.
C4_TransientFreshInstance ==
    \A n \in SvcNames :
        lifetime[n] = "transient" =>
            /\ made[n] = Len(got[n])
            /\ \A i, j \in 1..Len(got[n]) :
                (i # j /\ got[n][i] # Undefined) => got[n][i] # got[n][j]

\* The names resolve(name) puts under construction, found by following what
\* each factory resolves, ending with the name that repeats; <<>> when the
\* chain ends (cached instance, unknown name, factory without dependency)
\* before a name repeats.
RECURSIVE CyclePath(_, _)
CyclePath(seen, name) ==
    IF ~has(name) THEN <<>>
    ELSE IF InSeq(name, seen) THEN Append(seen, name)
    ELSE IF IsCached(services[name]) THEN <<>>
    ELSE IF services[name].factory.uses = NoDep THEN <<>>
    ELSE CyclePath(Append(seen, name), services[name].factory.uses)

\* C5: when resolve(A) reaches, through the factories it runs, a resolve of a
\* name whose factory is still running, the call fails with the
\* circular-dependency error that lists the names under construction in order
\* followed by the repeated name, and that is the error of the outermost call.
C5_CircularDependencyReported ==
    [][\A n \in SvcNames :
        (/\ diOps' = diOps + 1
         /\ diLast'.op = "resolve"
         /\ diLast'.name = n
         /\ CyclePath(<<>>, n) # <<>>)
        => diLast'.error =
              [kind |-> "CircularDependency", names |-> CyclePath(<<>>, n)]]_vars

\* a resolve failed with a cycle that runs through a second factory
C5_Witness ==
    /\ diLast.op = "resolve"
    /\ diLast.error.kind = "CircularDependency"
    /\ Len(diLast.error.names) >= 3

\* the error resolve(name) ends with, read off the registrations: the name is
\* unknown, or it is under construction, or it is cached (no error), or its
\* factory fails in what it resolves or throws itself
RECURSIVE FailureOf(_, _)
FailureOf(seen, name) ==
    IF services[name] = NoService THEN NotRegisteredError(name)
    ELSE IF InSeq(name, seen) THEN [kind |-> "CircularDependency",
                                    names |-> Append(seen, name)]
    ELSE IF IsCached(services[name]) THEN NoError
    ELSE LET factory == services[name].factory
             inner == IF factory.uses = NoDep THEN NoError
                      ELSE FailureOf(Append(seen, name), factory.uses)
         IN  IF inner # NoError THEN inner
             ELSE IF factory.kind = "throw" THEN FactoryError(name)
             ELSE NoError

\* the host's resolve(n) runs in this step
Resolves(n) == diLast'.op = "resolve" /\ diLast'.name = n /\ diOps' = diOps + 1

BuiltBefore(value) == value = Undefined \/ value < nextObj

\* a registration under name stores the new factory with nothing cached and
\* leaves every other registration alone
ReplacesCompletely ==
    \A n \in SvcNames, factory \in Factories :
        registerSingleton(n, factory) \/ registerTransient(n, factory) =>
            /\ services'[n].factory = factory
            /\ ~services'[n].instantiated /\ services'[n].instance = Undefined
            /\ \A m \in SvcNames \ {n} : services'[m] = services[m]

\* a successful resolve of a name with nothing cached invokes the factory
\* registered under it and returns what that factory built in this call
ResolveOfUncachedBuilds ==
    \A n \in SvcNames :
        Resolves(n) /\ has(n) /\ ~IsCached(services[n]) /\ diLast'.error = NoError =>
            /\ made'[n] = made[n] + 1
            /\ IF services[n].factory.kind = "obj"
               THEN diLast'.value >= nextObj /\ diLast'.value < nextObj'
               ELSE diLast'.value = Undefined

\* C27: registerSingleton or registerTransient on a registered name replaces
\* the registration completely: nothing stays cached under the name, so the
\* next resolve(name) invokes the new factory and returns an object built in
\* that call, never one built and cached before.
C27_ReRegistrationReplaces ==
    /\ [](\A n \in SvcNames : has(n) => BuiltBefore(services[n].instance))
    /\ [][ReplacesCompletely /\ ResolveOfUncachedBuilds]_vars

\* register "A", resolve it (object 1), register "A" again, resolve it: the
\* second resolve returned object 2
C27_Witness ==
    /\ diOps = 4
    /\ diLast.op = "resolve" /\ diLast.name = "A" /\ diLast.value = 2
    /\ services["B"] = NoService /\ services["C"] = NoService
    /\ stale["A"] = Undefined

\* ---- cleanup claims (SpecDICleanup) ----

\* a cleanup() call has run its loop over the services
CleanupRan == cleaning.pc \in {"awaiting", "resolved", "rejected"}

\* C25: one cleanup() call invokes the cleanup hook of every instantiated
\* service whose instance has one exactly once (and no other hook), whatever
\* the other hooks do: throw, or return a promise that rejects; and the call
\* never rejects.
EachHookInvokedOnce ==
    CleanupRan =>
        \A n \in SvcNames :
            cleaning.invoked[n] = IF hasCleanup(cleaning.hooks[n]) THEN 1 ELSE 0

CleanupMeetsTheInstances ==
    cleanup =>
        \A n \in SvcNames :
            /\ Cleanable(n) <=> cleaning'.hooks[n] \in CleanupKinds
            /\ Cleanable(n) /\ hasCleanup(cleaning'.hooks[n])
                   => cleaning'.invoked[n] = 1
            /\ ~Cleanable(n) => cleaning'.invoked[n] = 0

C25_CleanupInvokesEveryHookOnce ==
    /\ [](EachHookInvokedOnce /\ cleaning.pc # "rejected")
    /\ [][CleanupMeetsTheInstances]_vars

\* cleanup() has resolved after it invoked two hooks, of which one threw and
\* the other returned a promise that rejected
C25_Witness ==
    /\ cleaning.pc = "resolved"
    /\ \E n, m \in SvcNames :
        /\ cleaning.hooks[n] = "throws" /\ cleaning.invoked[n] = 1
        /\ cleaning.hooks[m] = "async" /\ cleaning.invoked[m] = 1
        /\ m \in cleaning.rejections

\* C26: cleanup() does not resolve until every promise returned by a hook it
\* invoked has settled, also when one of them rejects.
C26_ResolvesAfterAllSettled ==
    cleaning.pc = "resolved" => cleaning.pending = {}

\* C6: after reset() every registered name is still registered, nothing is
\* cached, and a resolve of a singleton that was cached before the reset
\* invokes its factory again and never returns the instance the reset dropped.
C6_ResetInvalidatesCache ==
    /\ diLast.op = "reset" =>
          \A n \in SvcNames :
              /\ has(n) <=> lifetime[n] # "none"
              /\ has(n) => ~IsCached(services[n])
    /\ \A n \in SvcNames :
          stale[n] # Undefined =>
              /\ has(n)
              /\ Len(got[n]) > 0 => made[n] >= 1
              /\ \A i \in 1..Len(got[n]) : got[n][i] # stale[n]

\* a singleton cached before a reset has been resolved again after it
C6_Witness ==
    \E n \in SvcNames :
        /\ lifetime[n] = "singleton"
        /\ stale[n] # Undefined
        /\ Len(got[n]) > 0

(***************************************************************************)
(* Claims about the message bus (checked under SpecBus).                   *)
(***************************************************************************)

\* C9: within one publish / publishMessage call the handlers are invoked in
\* descending priority order, and subscribers of equal priority in the order
\* in which they subscribed (the order of their ids).
C9_DeliveryOrder ==
    \A c \in PubCalls :
        \A i, j \in 1..Len(pub[c].delivered) :
            i < j =>
                LET first == pub[c].delivered[i]
                    second == pub[c].delivered[j]
                IN  \/ first.priority > second.priority
                    \/ first.priority = second.priority /\ first.id < second.id

\* one call invoked a later subscriber of higher priority before an earlier one
C9_Witness ==
    \E c \in PubCalls :
        \E i, j \in 1..Len(pub[c].delivered) :
            /\ i < j
            /\ pub[c].delivered[i].id > pub[c].delivered[j].id
            /\ pub[c].delivered[i].priority > pub[c].delivered[j].priority

\* C10: a once subscription is removed from the bus by the first publish call
\* that attempts its handler, whether the handler completed or failed: once
\* that call has returned, the subscription is gone (so no later publish can
\* invoke it again).
C10_OnceRemovedAfterAttempt ==
    \A c \in PubCalls :
        pub[c].pc = "done" =>
            \A i \in 1..Len(pub[c].delivered) :
                pub[c].delivered[i].once =>
                    ~IsSubscribed(subscriptions, pub[c].delivered[i].id)


\* the invocations of call c that completed without error
Completed(c) == {i \in 1..Len(pub[c].outcomes) : pub[c].outcomes[i] = "ok"}

\* C11: in one publish call a handler that throws or rejects does not keep
\* the subscribers after it from being invoked (every subscription that
\* passed the filter is invoked, in the filtered order), and the call
\* resolves with the number of handlers that completed without error.
C11_FailuresIsolatedAndCounted ==
    \A c \in PubCalls :
        /\ pub[c].pc = "awaitHandler" =>
              /\ pub[c].delivered = SubSeq(pub[c].filtered, 1, pub[c].idx)
              /\ Cardinality(Completed(c)) = pub[c].processedCount
        /\ pub[c].pc = "done" =>
              /\ pub[c].delivered = pub[c].filtered
              /\ Len(pub[c].outcomes) = Len(pub[c].delivered)
              /\ pub[c].result = Cardinality(Completed(c))

\* a call resolved with 1: its first handler failed, its second completed
C11_Witness ==
    \E c \in PubCalls :
        /\ pub[c].pc = "done"
        /\ pub[c].outcomes = <<"failed", "ok">>
        /\ pub[c].result = 1

\* C12: publish and publishMessage never reject, whatever handlers, filters,
\* errorHandlers and timeouts do: a call that has settled resolved with a count.
C12_PublishNeverRejects ==
    \A c \in PubCalls :
        /\ pub[c].pc # "rejected"
        /\ pub[c].pc = "done" => pub[c].result \in 0..Len(pub[c].filtered)

\* a call resolved with 0 after each of its two handlers failed, one of them
\* by losing the race against the timeout
C12_Witness ==
    \E c \in PubCalls :
        /\ pub[c].pc = "done"
        /\ pub[c].outcomes = <<"failed", "failed">>
        /\ pub[c].abandoned # {}
        /\ pub[c].result = 0

\* C13: within one publishMessage call no handler is started while the
\* handler of an earlier subscriber is still running: a handler that is
\* still running is the one invoked last.
C13_StrictlySequential ==
    \A c \in PubCalls :
        LET running == pub[c].abandoned \cup
                          (IF pub[c].pc = "awaitHandler" /\ pub[c].pending = "async"
                           THEN {pub[c].filtered[pub[c].idx].id} ELSE {})
        IN  \A id \in running :
                pub[c].delivered[Len(pub[c].delivered)].id = id

\* the ids of a list of subscriptions
IdsOf(subs) == {subs[i].id : i \in 1..Len(subs)}

\* what a filter pass over the sorted subscriptions of a type may produce: a
\* subscription whose filter threw is left out, every subscription without a
\* filter is kept, and those kept are in the sorted order
FilterPassTreatsThrowAsFalse(sorted, pass) ==
    /\ pass.threw \cap IdsOf(pass.filtered) = {}
    /\ \A i \in 1..Len(sorted) :
          ~sorted[i].filter => sorted[i].id \in IdsOf(pass.filtered)
    /\ pass.filtered = SelectSeq(sorted, LAMBDA sub : sub.id \in IdsOf(pass.filtered))

\* C28: a subscription whose filter throws for a message is left out as if
\* the filter had returned false: its handler is not invoked and it is not
\* counted, while every other subscriber of the type is still delivered the
\* message in the order of the sort.
C28_FilterThrowIsFalse ==
    /\ \A type \in MsgTypes :
          LET sorted == SortByPriority(subscriptions[type])
          IN  \A pass \in FilterOutcomes(sorted) :
                  FilterPassTreatsThrowAsFalse(sorted, pass)
    /\ \A c \in PubCalls :
          /\ pub[c].threw \cap (IdsOf(pub[c].filtered) \cup IdsOf(pub[c].delivered)) = {}
          /\ pub[c].pc = "done" =>
                /\ pub[c].delivered = pub[c].filtered
                /\ pub[c].result <= Len(pub[c].filtered)

\* a publish for which the filter of one subscription threw and the other
\* subscription was delivered the message and counted
C28_Witness ==
    \E c \in PubCalls :
        /\ pub[c].pc = "done"
        /\ pub[c].threw # {}
        /\ Len(pub[c].delivered) = 1
        /\ pub[c].result = 1

\* a handler that lost the race against the timeout was treated as failed: it
\* is not among the completed ones, and the loop has moved past it
TimeoutIsFailure ==
    \A c \in PubCalls :
        /\ \A i \in 1..Len(pub[c].delivered) :
              pub[c].delivered[i].id \in pub[c].abandoned =>
                  /\ i <= Len(pub[c].outcomes) /\ pub[c].outcomes[i] = "failed"
                  /\ pub[c].pc = "awaitHandler" => pub[c].idx > i
        /\ pub[c].processedCount = Cardinality(Completed(c))
        /\ pub[c].pc = "done" => pub[c].result = pub[c].processedCount

Total == TotalSubscriptions(subscriptions, MsgTypes)

\* with a limit configured, the bus holds no more subscriptions than the limit
LimitHeld == maxSubscriptions > 0 => Total <= maxSubscriptions

\* a subscribe or once call made at the limit throws and adds nothing; made
\* below the limit, or without a limit, it adds one subscription to its type
SubscribeRespectsLimit ==
    \A type \in MsgTypes : \A options \in OptionsFor(type) :
        subscribe(type, options) \/ once(type, options) =>
            IF maxSubscriptions > 0 /\ Total >= maxSubscriptions
            THEN UNCHANGED <<subscriptions, subscriptionIdCounter>>
            ELSE /\ Len(subscriptions'[type]) = Len(subscriptions[type]) + 1
                 /\ TotalSubscriptions(subscriptions', MsgTypes) = Total + 1

\* C23: with maxSubscriptions = N > 0 the bus never holds more than N
\* subscriptions, whatever is subscribed, removed or published; a subscribe
\* at the limit throws and adds nothing, and subscribe succeeds whenever
\* fewer than N subscriptions are held.
C23_SubscriptionLimit ==
    []LimitHeld /\ [][SubscribeRespectsLimit]_vars

\* with a limit of one: a second subscription was accepted, which the limit
\* only allows after the first one was removed, and the bus is at its limit
C23_Witness ==
    /\ maxSubscriptions = 1
    /\ subscriptionIdCounter = 2
    /\ Total = 1

\* the ids of the subscriptions the bus holds
IdsHeld ==
    UNION {{subscriptions[t][i].id : i \in 1..Len(subscriptions[t])} : t \in MsgTypes}

\* every id held was issued before the counter reached its present value,
\* and no two subscriptions held share an id
IdsHeldAreDistinctAndPast ==
    /\ \A id \in IdsHeld : id < subscriptionIdCounter
    /\ Cardinality(IdsHeld) = Total

\* the counter never goes back, and an id that appears in a step is the
\* counter's value before the step, which the step moves past
IdsAreIssuedInIncreasingOrder ==
    /\ subscriptionIdCounter' >= subscriptionIdCounter
    /\ \A id \in IdsHeld' \ IdsHeld :
          id = subscriptionIdCounter /\ subscriptionIdCounter' = id + 1

\* C30: no id returned by subscribe is ever returned again, over any sequence
\* of subscribe, once, unsubscribe, unsubscribeAll and clear: ids are the
\* successive values of a counter that no operation moves back.
C30_IdsNeverReused ==
    []IdsHeldAreDistinctAndPast /\ [][IdsAreIssuedInIncreasingOrder]_vars

\* without a limit: the subscription with id sub_0 is gone and the
\* subscription made after its removal has id sub_1
C30_Witness ==
    /\ maxSubscriptions = 0
    /\ subscriptionIdCounter = 2
    /\ IdsHeld = {1}

\* the subscriptions whose handler publish call c invokes in this step
NewlyDelivered(c) ==
    IF pub'[c] = pub[c] THEN <<>>
    ELSE IF pub[c].pc = "awaitHandler"
    THEN SubSeq(pub'[c].delivered, Len(pub[c].delivered) + 1, Len(pub'[c].delivered))
    ELSE IF published' # published THEN pub'[c].delivered
    ELSE <<>>

\* C38: a handler is invoked only for a subscription the bus still holds:
\* once unsubscribe, unsubscribeAll or clear has removed a subscription, no
\* publish call invokes its handler any more, a call already in progress
\* included.
C38_RemovedHandlerNeverInvoked ==
    [][\A c \in PubCalls :
          \A i \in 1..Len(NewlyDelivered(c)) :
              IsSubscribed(subscriptions, NewlyDelivered(c)[i].id)]_vars

\* publish call c begins in this step
PublishBegins(c) == published' # published /\ pub'[c] # pub[c]

\* the list the call delivers to was taken from the subscriptions its type
\* had when the call began: it holds them in sorted order, every one without
\* a filter included
TakesSnapshot(c) ==
    LET sorted == SortByPriority(subscriptions[pub'[c].type])
        filtered == pub'[c].filtered
    IN  /\ SelectSeq(sorted, LAMBDA sub : sub.id \in IdsOf(filtered)) = filtered
        /\ \A i \in 1..Len(sorted) : ~sorted[i].filter => sorted[i].id \in IdsOf(filtered)

\* the handlers invoked so far are those of the first subscriptions of the
\* list, each once, and of the whole list when the call has returned
DeliversAlongSnapshot(c) ==
    /\ Len(pub[c].delivered) <= Len(pub[c].filtered)
    /\ pub[c].delivered = SubSeq(pub[c].filtered, 1, Len(pub[c].delivered))
    /\ \A i, j \in 1..Len(pub[c].filtered) :
          i # j => pub[c].filtered[i].id # pub[c].filtered[j].id
    /\ pub[c].pc = "done" => pub[c].delivered = pub[c].filtered

\* C37: delivery works on a snapshot of the subscriber list taken when
\* publishMessage starts: every subscription of the snapshot that passed its
\* filter has its handler attempted exactly once, and the list does not
\* change while the call is suspended, so a subscription added meanwhile is
\* not invoked for the message.
C37_DeliveryOnSnapshot ==
    /\ [](\A c \in PubCalls : DeliversAlongSnapshot(c))
    /\ [][\A c \in PubCalls :
            /\ PublishBegins(c) => TakesSnapshot(c)
            /\ pub[c].pc = "awaitHandler" => pub'[c].filtered = pub[c].filtered]_vars

\* a publish has returned after invoking the one handler of its snapshot,
\* and the bus holds a subscription of the same type that was added while
\* the call waited for that handler
C37_Witness ==
    \E c \in PubCalls :
        /\ pub[c].pc = "done" /\ pub[c].outcomes = <<"ok">>
        /\ IdsOf(pub[c].delivered) = {0}
        /\ IdsOf(subscriptions[pub[c].type]) = {0, 1}

\* the invocations of the handler of subscription id, over all publish calls
Invocations(id) ==
    {inv \in PubCalls \X (1..MaxSubs) :
        /\ inv[2] <= Len(pub[inv[1]].delivered)
        /\ pub[inv[1]].delivered[inv[2]].id = id}

\* C35: the handler of a once subscription is invoked at most once, also
\* when a second publish of its type begins while a handler of the first is
\* still awaited (begun by another caller or from inside that handler).
C35_OnceAtMostOnce ==
    \A c \in PubCalls :
        \A i \in 1..Len(pub[c].delivered) :
            pub[c].delivered[i].once =>
                Cardinality(Invocations(pub[c].delivered[i].id)) <= 1

(***************************************************************************)
(* BasePlugin claims (SpecBasePlugin)                                       *)
(***************************************************************************)
\* the ids on the bus
IdsOnBus == UNION {IdsOf(subscriptions[t]) : t \in MsgTypes}

\* every subscription of the plugin that the bus still holds is in
\* subscriptionIds, and none that an onDeactivate has covered is on the bus
PluginSubscriptionsTracked ==
    /\ basePlugin.issued \cap IdsOnBus \subseteq basePlugin.subscriptionIds
    /\ basePlugin.cancelled \cap IdsOnBus = {}

\* C33: the subscriptions a plugin made through subscribeMessage are
\* cancelled when BasePlugin.onDeactivate runs: after it the bus holds no
\* subscription whose id subscribeMessage had returned, and a message
\* published later is not delivered to their handlers.
DeactivationCancels ==
    /\ onDeactivate =>
          /\ basePlugin.issued \cap UNION {IdsOf(subscriptions'[t]) : t \in MsgTypes} = {}
          /\ basePlugin'.subscriptionIds = {}
    /\ \A c \in PubCalls :
          PublishBegins(c) => IdsOf(pub'[c].filtered) \cap basePlugin.cancelled = {}

KeysPending == {k \in Keys : PendingFor(debouncer, k) # {}}

\* C39: at most one timer is pending per key; a callback that debounce
\* superseded, or that cancel(key) or clearAll() covered, never runs; and
\* getActiveCount() equals the number of keys with a callback still pending,
\* also after a callback called debounce for its own key.
C39_OnePendingTimerPerKey ==
    /\ \A k \in Keys : Cardinality(PendingFor(debouncer, k)) <= 1
    /\ debouncer.ran \cap debouncer.stopped = {}
    /\ getActiveCount = Cardinality(KeysPending)

(***************************************************************************)
(* Plugin manager claims (SpecPM)                                           *)
(***************************************************************************)
\* the required dependencies among those a plugin instance declares
RequiredNames(plugin) ==
    {Plugin[plugin].dependencies[i].name :
        i \in {j \in 1..Len(Plugin[plugin].dependencies) :
                  Plugin[plugin].dependencies[j].required}}

\* call c is an activate call executing activePlugins.add(name) in this step
AddsToActive(c) ==
    /\ calls[c].op = "activate"
    /\ calls[c].pc # "awaitActivated"
    /\ calls'[c].pc = "awaitActivated"

\* C1: at the moment activate(P) adds P to the active set, every dependency
\* P declares with required=true is in the active set, whatever other calls
\* ran while activate(P) was suspended.
C1_RequiredActiveWhenAdded ==
    [][\A c \in CallSlots :
          AddsToActive(c) =>
              \A d \in RequiredNames(calls[c].plugin) : InSeq(d, activePlugins')]_vars

\* C2: isActive(name) is true only if the instance currently registered
\* under name had its isAvailable() return true during an activate call.
\* (Stated for the names that have a registered instance.)
C2_ActiveOnlyIfAvailable ==
    \A name \in PluginNames :
        isActive(name) /\ plugins[name] # NoPlugin => plugins[name] \in availOk

\* call c is an activate call that was suspended and returns in this step
ActivateReturns(c) ==
    /\ calls[c].op = "activate"
    /\ calls'[c].pc = "done"

\* some required dependency of the call's plugin was not active when the
\* call checked its dependencies
RequiredMissingAtCheck(call) ==
    \E d \in RequiredNames(call.plugin) : ~InSeq(d, call.activeAtCheck)

\* the call's last published event is plugin:activation-failed naming
\* exactly the required dependencies that were not active at the check
PublishedMissing(call) ==
    /\ call.trace # <<>>
    /\ LET last == call.trace[Len(call.trace)]
       IN  /\ last.kind = ACTIVATION_FAILED
           /\ last.error # <<>>
           /\ {last.error[i] : i \in 1..Len(last.error)}
                 = {d \in RequiredNames(call.plugin) : ~InSeq(d, call.activeAtCheck)}

\* the call's onActivate hook failed
OnActivateFailed(call) ==
    \E i \in 1..Len(call.trace) :
        /\ call.trace[i].kind = ACTIVATION_FAILED
        /\ call.trace[i].error = <<"onActivate">>

\* a required dependency missing at the check makes the call return false
\* after publishing plugin:activation-failed with the missing names, and a
\* call whose isAvailable() did not return false returns false only then
FailsExactlyWhenRequiredMissing(c) ==
    /\ RequiredMissingAtCheck(calls[c])
          => calls'[c].result = "false" /\ PublishedMissing(calls[c])
    /\ calls'[c].result = "false" /\ calls[c].isAvailable # "false"
          => RequiredMissingAtCheck(calls[c])

\* C7 as written: activate(P) returns false and publishes
\* plugin:activation-failed exactly when a required dependency is not active
\* (at the dependency check), and returns true whenever every required
\* dependency is active and isAvailable() returned true, optional
\* dependencies notwithstanding.
C7_AsWritten ==
    [][\A c \in CallSlots :
          ActivateReturns(c) =>
              /\ FailsExactlyWhenRequiredMissing(c)
              /\ ~RequiredMissingAtCheck(calls[c]) /\ calls[c].isAvailable = "true"
                    => calls'[c].result = "true"]_vars

\* C7: activate(P) returns false and publishes plugin:activation-failed
\* naming the missing dependencies exactly when a required dependency is not
\* active at the dependency check; optional dependencies never block; and
\* when every required dependency is active and isAvailable() returned true
\* the call returns true, unless onActivate throws while
\* throwOnActivationError is set, in which case the call rejects.
C7_DependencyGate ==
    [][\A c \in CallSlots :
          ActivateReturns(c) =>
              /\ FailsExactlyWhenRequiredMissing(c)
              /\ ~RequiredMissingAtCheck(calls[c]) /\ calls[c].isAvailable = "true"
                    => \/ calls'[c].result = "true"
                       \/ /\ throwOnActivationError
                          /\ OnActivateFailed(calls[c])
                          /\ calls'[c].result = "rejected"]_vars

\* one activate("P") has failed on the missing required "D" and is about to
\* return false, another has passed the check with "D" active and the
\* optional "O" absent and is about to return true
C7_Witness ==
    \E c, d \in CallSlots :
        /\ calls[c].op = "activate" /\ calls[c].plugin = 1
        /\ calls[c].pc = "awaitDependenciesFailed"
        /\ PublishedMissing(calls[c])
        /\ calls[d].op = "activate" /\ calls[d].plugin = 1
        /\ calls[d].pc = "awaitActivated"
        /\ calls[d].isAvailable = "true"
        /\ InSeq("D", calls[d].activeAtCheck) /\ ~InSeq("O", calls[d].activeAtCheck)

\* C8: whenever an activate(name) call returns false, isActive(name) is
\* false at that moment, whatever the plugin's state before the call.
C8_FalseMeansInactive ==
    [][\A c \in CallSlots :
          ActivateReturns(c) /\ calls'[c].result = "false"
              => ~InSeq(calls[c].name, activePlugins')]_vars

\* activate call c, whose onActivate hook has failed and whose
\* plugin:activation-failed has been delivered, takes its next step
HookFailureHandled(c) ==
    /\ calls[c].op = "activate" /\ calls[c].pc = "awaitHookFailed"
    /\ calls'[c] # calls[c]

\* C16: when a plugin's onActivate hook throws or rejects, the activate call
\* still adds the plugin to the active set, whether or not
\* throwOnActivationError is set.
C16_HookFailureStillActivates ==
    [][\A c \in CallSlots :
          HookFailureHandled(c) => InSeq(calls[c].name, activePlugins')]_vars

\* the hooks invoked and events published by a call, in order
Kinds(trace) == [i \in 1..Len(trace) |-> trace[i].kind]

\* the same without plugin:deactivation-failed
KindsButFailure(trace) ==
    SelectSeq(Kinds(trace), LAMBDA k : k # DEACTIVATION_FAILED)

\* what a deactivation that succeeds publishes and invokes
DeactivationKinds(plugin) ==
    <<BEFORE_DEACTIVATE>>
       \o (IF Plugin[plugin].onDeactivate THEN <<"onDeactivate">> ELSE <<>>)
       \o <<DEACTIVATED>>

\* deactivate(name) is called; on an unregistered or inactive name it returns
\* false before any await, hence without an event or a hook, and leaves the
\* manager as it was; otherwise it publishes plugin:before-deactivate first
DeactivateStartsAsClaimed(c, name) ==
    deactivate(c, name) =>
        IF plugins[name] = NoPlugin \/ ~isActive(name)
        THEN /\ calls'[c].pc = "done" /\ calls'[c].result = "false"
             /\ plugins' = plugins /\ activePlugins' = activePlugins
        ELSE /\ calls'[c].pc = "awaitBeforeDeactivate"
             /\ Kinds(calls'[c].trace) = <<BEFORE_DEACTIVATE>>

\* deactivate call c publishes plugin:deactivated in this step
PublishesDeactivated(c) ==
    /\ calls[c].op = "deactivate"
    /\ calls[c].pc # "awaitDeactivated" /\ calls'[c].pc = "awaitDeactivated"

\* deactivate call c, which found its plugin active, returns in this step
DeactivateReturns(c) ==
    /\ calls[c].op = "deactivate"
    /\ calls[c].pc \notin {"done", "running"} /\ calls'[c].pc = "done"

\* it returns true, after before-deactivate, the hook and deactivated in order
ReturnsTrueInOrder(c) ==
    /\ calls'[c].result = "true"
    /\ KindsButFailure(calls[c].trace) = DeactivationKinds(calls[c].plugin)

\* the name is out of the active set when plugin:deactivated is published
RemovedBeforeDeactivated ==
    \A c \in CallSlots :
        PublishesDeactivated(c) => ~InSeq(calls[c].name, activePlugins')

DeactivationFailureHandled(c) ==
    /\ calls[c].op = "deactivate" /\ calls[c].pc = "awaitDeactivationFailed"
    /\ calls'[c] # calls[c]

\* C18: even when the onDeactivate hook fails, the deactivate call marks the
\* plugin inactive: when it finishes handling the failure (going on to
\* resolve, or rejecting), isActive(name) is false, whether or not
\* throwOnDeactivationError is set.
C18_HookFailureStillDeactivates ==
    [][\A c \in CallSlots :
          DeactivationFailureHandled(c) => ~InSeq(calls[c].name, activePlugins')]_vars

\* unregister(name) is called and suspends on the Promise its plugin's
\* onDeactivate hook returned
UnregisterAwaitsHook(c) ==
    /\ calls[c].op # "unregister" /\ calls'[c].op = "unregister"
    /\ calls'[c].pc = "awaitUnregisterHook"

\* C19: unregister(name) invokes the onDeactivate hook only if the plugin is
\* active when unregister is called.
C19_HookOnlyWhenActive ==
    [][\A c \in CallSlots :
          UnregisterAwaitsHook(c) => isActive(calls'[c].name)]_vars

\* activate call c, which found its plugin active and called its
\* deactivation hook, runs its dependency check in this step
RestartReachesChecks(c) ==
    /\ calls[c].op = "activate"
    /\ calls[c].pc \in {"awaitBeforeActivate", "awaitRestartHook"}
    /\ calls'[c].pc \in {"awaitDependenciesFailed", "awaitIsAvailable"}
    /\ InSeq("onDeactivate", Kinds(calls'[c].trace))

\* C20: activate(name) on an active plugin deactivates it first: when the
\* activation steps begin, name has left the active set and
\* plugin:before-deactivate and plugin:deactivated have been published.
C20_CleanRestart ==
    [][\A c \in CallSlots :
          RestartReachesChecks(c) =>
              /\ ~InSeq(calls[c].name, calls'[c].activeAtCheck)
              /\ InSeq(BEFORE_DEACTIVATE, Kinds(calls'[c].trace))
              /\ InSeq(DEACTIVATED, Kinds(calls'[c].trace))]_vars

\* the active plugins that declare name as a required dependency
ActiveDependents(name) ==
    {n \in PluginNames :
        /\ isActive(n) /\ plugins[n] # NoPlugin
        /\ name \in RequiredNames(plugins[n])}

\* the active flag of every plugin other than name is the same after the step
OthersKeepActiveFlag(name) ==
    \A n \in PluginNames \ {name} : InSeq(n, activePlugins') <=> InSeq(n, activePlugins)

\* C21: deactivate(D) on an active plugin D is not refused because active
\* plugins require D: it goes on to its hook and removes D; and no step of a
\* deactivate call changes the active flag of a plugin other than its own.
C21_NoCascade ==
    [][/\ \A c \in CallSlots, name \in PluginNames :
             deactivate(c, name) =>
                 /\ OthersKeepActiveFlag(name)
                 /\ plugins[name] # NoPlugin /\ isActive(name)
                       => calls'[c].pc = "awaitBeforeDeactivate"
       /\ \A c \in CallSlots :
             calls[c].op = "deactivate" /\ calls'[c] # calls[c] =>
                 /\ OthersKeepActiveFlag(calls[c].name)
                 /\ PublishesDeactivated(c) => ~InSeq(calls[c].name, activePlugins')]_vars

\* deactivate("D") has removed "D" while "P", which requires "D", is active
\* and stays active
C21_Witness ==
    \E c \in CallSlots :
        /\ calls[c].op = "deactivate" /\ calls[c].name = "D"
        /\ calls[c].pc = "awaitDeactivated"
        /\ ActiveDependents("D") = {"P"}
        /\ ~isActive("D")


\* the lifecycle events of activation a call has published, in order
ActivationEvents(trace) ==
    SelectSeq(Kinds(trace),
              LAMBDA k : k \in {BEFORE_ACTIVATE, ACTIVATED, ACTIVATION_FAILED})

\* C31: an activate(name) call on a registered plugin that returns has
\* published plugin:before-activate and then exactly one of plugin:activated
\* and plugin:activation-failed: plugin:activated when it returns true,
\* plugin:activation-failed when it returns false.
C31_OneOutcomeEvent ==
    [][\A c \in CallSlots :
          ActivateReturns(c) /\ calls'[c].result \in {"true", "false"} =>
              ActivationEvents(calls[c].trace) =
                  IF calls'[c].result = "true"
                  THEN <<BEFORE_ACTIVATE, ACTIVATED>>
                  ELSE <<BEFORE_ACTIVATE, ACTIVATION_FAILED>>]_vars

\* call c publishes the lifecycle event kind in this step
PublishesNow(c, kind) ==
    /\ calls'[c].trace # calls[c].trace
    /\ calls'[c].trace # <<>>
    /\ calls'[c].trace[Len(calls'[c].trace)].kind = kind

\* the call has reached plugin.isAvailable() or plugin.onActivate()
ReachedAvailabilityOrHook(call) ==
    \/ call.pc = "awaitIsAvailable"
    \/ call.isAvailable # "unset"
    \/ InSeq("onActivate", Kinds(call.trace))

\* C32: plugin:activated for P is published with P in the active set and
\* plugin:deactivated for P with P out of it (what a subscriber invoked by
\* that publish observes through isActive), and an activate call has
\* published plugin:before-activate before it calls isAvailable() or
\* onActivate.
EventsFollowTheStateChange ==
    \A c \in CallSlots :
        /\ PublishesNow(c, ACTIVATED) => InSeq(calls'[c].name, activePlugins')
        /\ PublishesNow(c, DEACTIVATED) => ~InSeq(calls'[c].name, activePlugins')

BeforeActivateComesFirst ==
    \A c \in CallSlots :
        calls[c].op = "activate" /\ ReachedAvailabilityOrHook(calls[c])
            => /\ calls[c].trace # <<>>
               /\ calls[c].trace[1].kind = BEFORE_ACTIVATE

C32_EventsOrderedAgainstState ==
    []BeforeActivateComesFirst /\ [][EventsFollowTheStateChange]_vars

\* one call has just published plugin:activated for a plugin with an
\* onActivate hook, another plugin:deactivated, each with the state changed
C32_Witness ==
    \E c, d \in CallSlots :
        /\ calls[c].op = "activate" /\ calls[c].pc = "awaitActivated"
        /\ InSeq("onActivate", Kinds(calls[c].trace))
        /\ isActive(calls[c].name)
        /\ calls[d].op = "deactivate" /\ calls[d].pc = "awaitDeactivated"
        /\ ~isActive(calls[d].name)

\* the entries of getStats().plugins with active = true
ActiveEntries == {p \in getStats.plugins : p.active}

\* C34: in every reachable state every name in the active set is a
\* registered plugin, so getStats().active equals the number of entries of
\* getStats().plugins with active = true and does not exceed
\* getStats().total.
C34_ActiveAreRegistered ==
    /\ \A name \in PluginNames : isActive(name) => plugins[name] # NoPlugin
    /\ getStats.active = Cardinality(ActiveEntries)
    /\ getStats.active <= getStats.total

\* call c begins and returns result in the same step, the registry and the
\* active set staying as they are; a call that returns in the step it begins
\* has awaited nothing, so it has published no event, and its trace of hooks
\* and events is empty
ReturnsAtOnce(c, result) ==
    /\ calls'[c].pc = "done" /\ calls'[c].result = result
    /\ calls'[c].trace = <<>>
    /\ plugins' = plugins /\ activePlugins' = activePlugins

\* C40: on a name that is not registered activate and deactivate return
\* false and unregister returns, without publishing a lifecycle event,
\* calling a hook or changing the registry or the active set.
C40_UnregisteredNameIsNoOp ==
    [][started' # started =>
          \A c \in CallSlots, name \in PluginNames :
              plugins[name] = NoPlugin =>
                  /\ activate(c, name) => ReturnsAtOnce(c, "false")
                  /\ deactivate(c, name) => ReturnsAtOnce(c, "false")
                  /\ unregister(c, name) => ReturnsAtOnce(c, "void")]_vars

\* an activate or deactivate on an unregistered name has returned false while
\* a name that is active without being registered stays active
C40_Witness ==
    /\ \E c \in CallSlots : calls[c].pc = "done" /\ calls[c].result = "false"
    /\ plugins = [n \in PluginNames |-> NoPlugin]
    /\ activePlugins = <<"D">>
    /\ started = 3

\* the number of calls of hook recorded in a trace
HookCalls(trace, hook) == Len(SelectSeq(Kinds(trace), LAMBDA k : k = hook))

\* call c invokes hook on its plugin instance in this step
InvokesHook(c, hook) ==
    /\ calls'[c].plugin # NoPlugin
    /\ HookCalls(calls'[c].trace, hook)
          > (IF calls[c].op = calls'[c].op /\ calls[c].pc \notin {"idle", "done"}
             THEN HookCalls(calls[c].trace, hook) ELSE 0)

\* C36: the manager's calls of a plugin instance's hooks alternate, starting
\* with onActivate; in particular onDeactivate is never invoked on an
\* instance that has had no onActivate call yet.  (onActivate is called only
\* after isAvailable() returned true in the same activate call, so an
\* instance outside availOk has had no onActivate call.)
C36_HooksAlternate ==
    [][\A c \in CallSlots :
          InvokesHook(c, "onDeactivate") => calls'[c].plugin \in availOk]_vars

(***************************************************************************)
(* deactivateAll claims (SpecPMAll)                                        *)
(***************************************************************************)
\* a deactivateAll call that began with no other call in flight, and during
\* which no other call began, resolves in this step
AllResolvesAlone ==
    all.pc = "awaiting" /\ all.alone /\ all'.pc = "resolved"

\* C22: when deactivateAll() resolves, none of the plugins that were active
\* when it was called is active (stated for a call that ran alone, its
\* deactivations being one at a time in the order of the active set).
C22_AllInactiveWhenResolved ==
    [][AllResolvesAlone =>
          \A i \in 1..Len(all.names) : ~InSeq(all.names[i], activePlugins')]_vars


(***************************************************************************)
(* Bulk activation claims (SpecPMBulk)                                      *)
(***************************************************************************)
\* call c is one of the activate calls of an activateMultiple that began on
\* registered, dependency-free, inactive plugins and has run alone since;
\* its plugin was available, and it returns in this step
FreshMemberReturns(c) ==
    /\ c \in Members /\ multi.fresh /\ multi.undisturbed
    /\ calls[c].op = "activate" /\ calls[c].isAvailable = "true"
    /\ calls'[c].pc = "done"

\* the plugin:activated events a call has published
ActivatedEvents(call) == {i \in 1..Len(call.trace) : call.trace[i].kind = ACTIVATED}

\* the activateMultiple in flight resolves in this step
MultiResolves == multi.pc = "awaiting" /\ multi'.pc = "resolved"

\* what activateMultiple resolves with, and the manager it leaves: the number
\* of activate calls that returned true; when that is every name of a fresh,
\* undisturbed call, every name is active and getStats().active counts the
\* names for which isActive is true
ResolvesWithSuccesses ==
    MultiResolves =>
        LET succeeded == {i \in 1..Len(multi.members) :
                             calls[multi.members[i]].result = "true"}
        IN  /\ multi'.result = Cardinality(succeeded)
            /\ Cardinality(succeeded) = Len(multi.names)
                  /\ multi.fresh /\ multi.undisturbed
                  => /\ \A i \in 1..Len(multi.names) : InSeq(multi.names[i], activePlugins')
                     /\ getStats.active
                           = Cardinality({n \in PluginNames : isActive(n)})

\* C14 as written: for distinct registered plugins without dependencies that
\* are available and inactive, each activate call of activateMultiple(names)
\* returns true after publishing exactly one plugin:activated, the call
\* resolves with the length of names, and afterwards every name is active and
\* getStats().active is the number of active plugins.
C14_AsWritten ==
    [][/\ \A c \in CallSlots :
             FreshMemberReturns(c) =>
                 /\ calls'[c].result = "true"
                 /\ Cardinality(ActivatedEvents(calls[c])) = 1
                 /\ InSeq(calls[c].name, activePlugins')
       /\ ResolvesWithSuccesses]_vars

\* C14: as above, except that a plugin whose onActivate hook fails while
\* throwOnActivationError is set makes its activate call, and with it
\* activateMultiple, reject.
C14_BulkActivation ==
    [][/\ \A c \in CallSlots :
             FreshMemberReturns(c) =>
                 \/ /\ calls'[c].result = "true"
                    /\ Cardinality(ActivatedEvents(calls[c])) = 1
                    /\ InSeq(calls[c].name, activePlugins')
                 \/ /\ throwOnActivationError
                    /\ OnActivateFailed(calls[c])
                    /\ calls'[c].result = "rejected"
       /\ ResolvesWithSuccesses]_vars

\* activateMultiple(["P", "D"]) or (["D", "P"]) on fresh plugins, undisturbed:
\* both activate calls have returned true and Promise.all is about to resolve
C14_Witness ==
    /\ multi.pc = "awaiting" /\ Len(multi.names) = 2
    /\ multi.fresh /\ multi.undisturbed
    /\ \A c \in Members : calls[c].pc = "done" /\ calls[c].result = "true"
    /\ \A i \in 1..Len(multi.names) : InSeq(multi.names[i], activePlugins)
    /\ getStats.active = 2

\* C15: with throwOnActivationError = false, activateMultiple(names) never
\* rejects, whatever fails in the activation of one of the names.
C15_BulkNeverRejects ==
    ~throwOnActivationError => multi.pc # "rejected"

====
